---- MODULE Spec2Model ----
(***************************************************************************)
(* gameflix: the Extractor (video -> numbered still images) and the        *)
(* Combiner (still images -> video).                                        *)
(*                                                                          *)
(* Strings are sequences of character codes so that std::string's lexical   *)
(* order and the stream formatting of the frame paths are computed, not     *)
(* assumed.  libavcodec/libavformat are the environment: a decoder or an    *)
(* encoder accepts input and hands back output only once it holds more than *)
(* its delay (the codec buffers frames until it is drained with a null      *)
(* packet / null frame).                                                    *)
(***************************************************************************)
EXTENDS Integers, Sequences, FiniteSets, TLC

\* ------------------------------------------------------------------ bounds
MaxPackets == 2
MaxDelay == 1
MaxWidth == 2
MaxRuns == 1
MaxTotalFrames == 1100
MaxNamedFrames == 30
MaxFiles == 4
MaxEncDelay == 1
MaxSharedFrames == 2
MaxStreams == 4
MaxPngPackets == 3
MaxLifeFiles == 1
MaxOps == 2
MaxArgc == 4

\* --------------------------------------------------------------- constants
\* AVMediaType of a stream, as far as find_video_stream tells them apart
MediaTypes == {"video", "audio", "subtitle"}

\* the stream layouts of the files the extractor is given
StreamLayouts == {<<"audio">>, <<"video", "audio">>, <<"audio", "video">>,
                  <<"video", "video">>}

VARIABLES
  \* FrameExtractor and its container / decoder
  streams,        \* the media type of each stream of the file (index 0 first)
  container,      \* the packets of the file: the stream index of each
  pos,            \* read position of format_context (1-based, Len+1 = EOF)
  dec_delay,      \* frames the decoder holds back until it is drained
  dec_buf,        \* frames currently buffered inside codec_context
  ex_pc,          \* "new" | "opened" | "read" | "receive" | "done" | "crashed"
                  \* | "destroyed"
                  \* ("find" | "found": find_video_stream on its own)
  format_context, \* the member format_context: "null" | "open"
  codec_context,  \* the member codec_context: "null" | "open"
  video_stream_index, \* the member video_stream_index (-1: none found)
  width,          \* the width argument of extract_frames
  frame_count,    \* the local frame_count of extract_frames
  member_frame_count, \* the member frame_count of the FrameExtractor
  ex_res,         \* the container and the decode session of this object:
                  \* how the constructor ended, how many of each were made
                  \* and how many times each was released
  lz_width,       \* last value returned by get_leading_zeros (0: never called)
  files,          \* the output directory: set of [path, data]
  ex_log,         \* the lines written to std::cerr / std::cout in this run
  saved,          \* frame indices of this run whose image was written
  skipped,        \* frame indices of this run whose save failed
  save_res,       \* SaveResources of the last save_frame_as_image call
  runs,           \* number of extract_frames calls started
  \* get_leading_zeros / frame path as pure computations
  total_frames,   \* the packet count the pre-pass found
  nm_width,       \* the width computed from total_frames (0: not yet)
  nm_count,       \* frame counter of the naming loop
  paths,          \* the frame paths computed so far, in capture order
  \* FrameCombiner, its encoder and its output container
  dir,            \* the file system under png_dir: set of [parent, name, kind]
  png_files,      \* the member png_files: a sequence of path strings
  codec_context_, \* "null" | "closed" (allocated, not opened) | "open"
  format_context_,\* "null" | "alloc" | "freed" (it points at a freed context)
  stream_,        \* "null" | "set"
  pb_open,        \* format_context_->pb was opened by avio_open
  header_written, \* avformat_write_header succeeded
  trailer_written,\* av_write_trailer ran on the container
  cb_pc,          \* the statement combine_frames_to_video is at; "new",
                  \* "done": no call is running; "destroyed"; "crashed"
  file_idx,       \* position of the range-for in png_files (1-based)
  i,              \* unsigned int i of convert_pngs_to_frames
  frame,          \* the AVFrame in hand: "none" or [id, size, fmt, pts]
  enc_delay,      \* frames the encoder holds back until it is drained
  enc_queue,      \* pts of the frames inside the encoder, oldest first
  muxed,          \* [pts, dts] of the packets written to the container, in order
  visited,        \* positions whose file convert_png_to_av_frame was given
  unreadable,     \* positions whose decode or rescale failed
  sent,           \* [pos, pts] of the frames the encoder accepted
  enc_failed,     \* positions where sending a frame or writing a packet failed
  cb_log,         \* positions a std::cerr line was printed for
  heap,           \* live: the frames allocated and not released;
                  \* again: the frames released after they were released
  decoded,        \* the frame convert_png_to_av_frame returned, while the round
                  \* is between STEP 2 and STEP 3 ("none" otherwise)
  rescale_failed, \* the failed rescale_frame_if_necessary call of this round:
                  \* [id: the original, live: the frames live at its return]
  b_held,         \* the oldest frame in the encoder waits as a B-frame
  emitted,        \* the packets avcodec_receive_packet has handed out, in
                  \* order: [pts, dts] in the codec time base, written or not
  stream_tb,      \* denominator of stream_->time_base (0: header not written)
  output_filename,\* the argument of combine_frames_to_video (a string)
  enc_cfg,        \* the settings of the encoder context codec_context_ points
                  \* at (NoSettings: none)
  codecpar,       \* stream_->codecpar (NoParameters: no stream)
  frames,         \* the member frames: a sequence of frames
  cb_res,         \* every encoder context (cc), output format context (fc)
                  \* and I/O handle (pb) this object made, in the order they
                  \* were made: how many times each was released
  ops,            \* public operations called on this object so far
  \* two FrameExtractor objects writing into one output directory
  objs,           \* per object: [state, this, w, total, n]
  written,        \* the files written: [path, by] (by: the object)
  \* FrameCombiner::decode_frames on one image file
  png_packets,    \* the packets av_read_frame finds in the image file
  png_pos,        \* read position in png_packets (1-based, Len+1 = EOF)
  frame_finished, \* the local frame_finished
  received,       \* frames avcodec_receive_frame has handed out
  df_pc,          \* decode_frames: "read" | "true" | "false" (the value
                  \* returned); convert_png_to_av_frame around it: "open" |
                  \* "info" | "find" | "decoder" | "context" | "frame" |
                  \* "frame_returned" | "null_returned" | "crashed"
  img_res,        \* the input, the decoder context and the frame of this
                  \* convert_png_to_av_frame call: how many of each were
                  \* made and how many times each was released
  \* the standalone program of src/main.cpp
  argc,           \* the words of the command line, the program name included
  main_pc,        \* "off" | "main" | "read" | "receive" | "exited"
  in_streams,     \* the media type of each stream of the file argv[1]
  in_packets,     \* the packets of the file argv[1]: the stream index of each
  in_pos,         \* read position in the file (1-based, Len+1 = EOF)
  m_dec_delay,    \* frames the decoder holds back
  m_dec_buf,      \* frames currently buffered inside codec_context
  m_frame_count,  \* the member frame_count
  m_files,        \* the directory argv[2]: set of [path, data]
  m_opened,       \* files the program opened or tried to open
  m_what,         \* what() of the exception main caught ("": none)
  m_failed,       \* the steps of save_frame_as_image that failed: [frame, step]
  exit_code       \* what main returned (-1: still running)

exVars == <<streams, container, pos, dec_delay, dec_buf, ex_pc, format_context,
            codec_context, video_stream_index, width, frame_count, lz_width,
            files, ex_log, saved, skipped, save_res, runs,
            member_frame_count, ex_res>>
nmVars == <<total_frames, nm_width, nm_count, paths>>
cbVars == <<dir, png_files, codec_context_, format_context_, stream_, pb_open,
            header_written, trailer_written, cb_pc, file_idx, i, frame,
            enc_delay, enc_queue, muxed, visited, unreadable, sent,
            enc_failed, cb_log, heap, decoded, b_held, emitted, stream_tb,
            rescale_failed>>
cfVars == <<output_filename, enc_cfg, codecpar, frames, cb_res, ops>>
twVars == <<objs, written>>
dfVars == <<png_packets, png_pos, frame_finished, received, df_pc, img_res>>
mainVars == <<argc, main_pc, in_streams, in_packets, in_pos, m_dec_delay,
              m_dec_buf, m_frame_count, m_files, m_opened, m_what, m_failed,
              exit_code>>
vars == <<exVars, nmVars, cbVars, cfVars, twVars, dfVars, mainVars>>

\* ----------------------------------------------------------------- strings
Str_frame == <<47, 102, 114, 97, 109, 101, 95>>   \* "/frame_"
Str_png == <<46, 112, 110, 103>>                  \* ".png"
OutputDir == <<116, 109, 112>>                    \* "tmp"
ThisPtr == <<48, 120, 49>>                        \* "0x1", operator<< of this
\* the addresses a FrameExtractor object can be placed at: "0x1", "0x2"
Addresses == {ThisPtr, <<48, 120, 50>>}

RECURSIVE Digits(_)
\* operator<<(int) for a non-negative value: its decimal digits
Digits(n) == IF n < 10 THEN <<48 + n>>
             ELSE Digits(n \div 10) \o <<48 + (n % 10)>>

RECURSIVE SetwFill0(_, _)
\* std::setfill('0') << std::setw(w): pad on the left up to w characters
SetwFill0(w, s) == IF Len(s) >= w THEN s ELSE SetwFill0(w, <<48>> \o s)

\* a frame path with the padding left out
FramePathNoPad(output_dir, w, n, this) ==
  output_dir \o Str_frame \o Digits(n) \o <<95>> \o this \o Str_png

\* frame_path_ss of extract_frames
FramePath(output_dir, w, n, this) ==
  output_dir \o Str_frame \o SetwFill0(w, Digits(n)) \o <<95>> \o this \o Str_png

RECURSIVE LexLess(_, _)
\* std::string operator<
LexLess(a, b) ==
  IF Len(b) = 0 THEN FALSE
  ELSE IF Len(a) = 0 THEN TRUE
  ELSE IF Head(a) # Head(b) THEN Head(a) < Head(b)
  ELSE LexLess(Tail(a), Tail(b))

RECURSIVE DivLoop(_, _)
\* while (temp /= 10) width += 1;
DivLoop(temp, w) == IF temp \div 10 # 0 THEN DivLoop(temp \div 10, w + 1) ELSE w

\* the loop with the test made before the division
LeadingZerosOffByOne(total) == IF total = 0 THEN 1 ELSE DivLoop(total, 1) + 1

\* STEP 2 of get_leading_zeros: the width for total_frames packets
LeadingZeros(total) == DivLoop(total, 1)

\* ---------------------------------------------------------------- helpers
RECURSIVE SeqsUpTo(_, _)
\* every sequence over S of length at most n
SeqsUpTo(S, n) ==
  IF n = 0 THEN {<<>>}
  ELSE LET shorter == SeqsUpTo(S, n - 1)
       IN shorter \cup {Append(q, x) : q \in {r \in shorter : Len(r) = n - 1}, x \in S}

RECURSIVE CountFrom(_, _, _)
\* number of packets of stream idx in c from position p on
CountFrom(c, p, idx) ==
  IF p > Len(c) THEN 0
  ELSE (IF c[p] = idx THEN 1 ELSE 0) + CountFrom(c, p + 1, idx)

\* the file at path p is created or truncated and holds d
WriteFile(fs, p, d) == {f \in fs : f.path # p} \cup {[path |-> p, data |-> d]}

\* ------------------------------------------------------- save_frame_as_image
\* What one call of save_frame_as_image comes to:
\*   ok          every step succeeds, the PNG packet is written and closed
\*   no_codec    avcodec_find_encoder fails: reported, return before any file
\*   open_fail   std::ofstream cannot open: reported, both objects freed once
\*   encode_fail send_frame / receive_packet fails: nothing is written to the
\*               file already opened, nothing is reported
\*   ctx_fail    initialize_png_codec_context returns nullptr, which
\*               create_png_frame dereferences
\*   frame_fail  create_png_frame frees the context and returns nullptr, which
\*               convert_frame_to_png uses
\*   sws_fail    convert_frame_to_png frees frame and context, which the
\*               caller goes on to use and frees again
\*   pkt_fail    encode_png_frame frees frame and context, which the caller
\*               frees again
SaveClean == {"ok", "no_codec", "open_fail", "encode_fail"}
SaveUndefined == {"ctx_fail", "frame_fail", "sws_fail", "pkt_fail"}
SaveOutcomes == SaveClean \cup SaveUndefined

\* std::cerr line of a save outcome ("" when the code prints none)
SaveReport(o) ==
  CASE o = "no_codec" -> "Failed to find PNG codec."
    [] o = "open_fail" -> "Failed to open output file."
    [] o = "ctx_fail" -> "Failed to allocate PNG codec context."
    [] o = "frame_fail" -> "Failed to allocate PNG frame."
    [] o = "sws_fail" -> "Failed to create frame conversion context."
    [] o = "pkt_fail" -> "Failed to allocate PNG packet."
    [] OTHER -> ""

\* the directory after save_frame_as_image(frame, p) ended with outcome o;
\* the ofstream is opened (the file created, empty) before the encode
SaveFile(fs, p, o) ==
  CASE o = "ok" -> WriteFile(fs, p, "png")
    [] o \in {"encode_fail", "pkt_fail"} -> WriteFile(fs, p, "empty")
    [] OTHER -> fs

\* what one call of save_frame_as_image does with the two objects it owns:
\*   outcome               how the call ended ("none": no call yet)
\*   made_ctx, made_frame  the PNG codec context / PNG frame was allocated
\*   ctx, png_frame        how many times each was released
\*   fault                 "null": a null pointer was dereferenced,
\*                         "released": a released object was used,
\*                         "none" otherwise
\* ctx_fail: avcodec_alloc_context3 fails and create_png_frame reads
\* png_codec_context->pix_fmt.  frame_fail: av_frame_alloc fails,
\* create_png_frame frees its copy of the context, convert_frame_to_png
\* reads png_codec_context->width and the caller frees the context again.
\* sws_fail and pkt_fail: the callee frees its copies of both pointers and
\* the caller frees both again.
SaveResources(o) ==
  CASE o \in {"none", "no_codec"} ->
         [outcome |-> o,
          made_ctx |-> FALSE, made_frame |-> FALSE, ctx |-> 0, png_frame |-> 0,
          fault |-> "none"]
    [] o = "ctx_fail" ->
         [outcome |-> o,
          made_ctx |-> FALSE, made_frame |-> TRUE, ctx |-> 0, png_frame |-> 1,
          fault |-> "null"]
    [] o = "frame_fail" ->
         [outcome |-> o,
          made_ctx |-> TRUE, made_frame |-> FALSE, ctx |-> 2, png_frame |-> 0,
          fault |-> "released"]
    [] o = "sws_fail" ->
         [outcome |-> o,
          made_ctx |-> TRUE, made_frame |-> TRUE, ctx |-> 2, png_frame |-> 2,
          fault |-> "released"]
    [] o = "pkt_fail" ->
         [outcome |-> o,
          made_ctx |-> TRUE, made_frame |-> TRUE, ctx |-> 2, png_frame |-> 2,
          fault |-> "none"]
    [] OTHER ->
         [outcome |-> o,
          made_ctx |-> TRUE, made_frame |-> TRUE, ctx |-> 1, png_frame |-> 1,
          fault |-> "none"]

\* ------------------------------------------------------------ FrameExtractor
\* What one call of the constructor comes to:
\*   ok          every step succeeds
\*   open_fail   avformat_open_input fails: reported, return
\*   info_fail   avformat_find_stream_info fails: the input is closed
\*               (format_context is null again), reported, return
\*   alloc_fail  avcodec_alloc_context3 fails in init_video_codec
\*   params_fail, no_decoder, codec_fail
\*               avcodec_parameters_to_context / avcodec_find_decoder /
\*               avcodec_open2 fails: codec_context is freed (null again)
\* Every failure prints to std::cerr and returns; nothing is thrown.
ConstructOutcomes == {"ok", "open_fail", "info_fail", "alloc_fail",
                      "params_fail", "no_decoder", "codec_fail"}

\* the loop of find_video_stream without its return: every video stream
\* overwrites the index, the last one stays
find_last_video_stream(s) ==
  LET video == {k \in 0..(Len(s) - 1) : s[k + 1] = "video"}
  IN IF video = {} THEN -1
     ELSE CHOOSE k \in video : \A j \in video : j <= k

RECURSIVE FirstVideoFrom(_, _)
\* the for loop of find_video_stream from stream k on (0-based); -1, the
\* value the constructor initialised, when no stream is a video stream
FirstVideoFrom(s, k) ==
  IF k >= Len(s) THEN -1
  ELSE IF s[k + 1] = "video" THEN k
  ELSE FirstVideoFrom(s, k + 1)

\* find_video_stream: the index of the first video stream
find_video_stream(s) == FirstVideoFrom(s, 0)

\* format_context(nullptr), codec_context(nullptr): nothing made, nothing
\* released
NoResources == [outcome |-> "none", cc_made |-> 0, cc_freed |-> 0,
                fc_made |-> 0, fc_freed |-> 0]

\* a release call that is handed a copy of the pointer: the object is
\* released and the member still points at it
release_by_value(p) == p

\* avcodec_free_context(&codec_context) and
\* avformat_close_input(&format_context): the object is released and the
\* member is set to null; on a null member the call does nothing
avcodec_free_context(p) == "null"

avformat_close_input(p) == "null"

\* what the constructor made and released when it ended with outcome o:
\* the input is opened unless avformat_open_input fails and is closed again
\* when avformat_find_stream_info fails; the codec context is allocated
\* unless the constructor returned earlier or avcodec_alloc_context3 fails,
\* and is freed again by each later failure of init_video_codec
ConstructResources(o) ==
  [outcome |-> o,
   fc_made |-> IF o = "open_fail" THEN 0 ELSE 1,
   fc_freed |-> IF o = "info_fail" THEN 1 ELSE 0,
   cc_made |-> IF o \in {"open_fail", "info_fail", "alloc_fail"} THEN 0 ELSE 1,
   cc_freed |-> IF o \in {"params_fail", "no_decoder", "codec_fail"} THEN 1
                ELSE 0]

\* the files avformat_open_input can be given: a stream layout and packets
\* that each belong to one of its streams
ExtractorInit ==
  /\ streams \in StreamLayouts
  /\ container \in SeqsUpTo({k - 1 : k \in DOMAIN streams}, MaxPackets)
  /\ pos = 1
  /\ dec_delay \in 0..MaxDelay
  /\ dec_buf = 0
  /\ ex_pc = "new"
  /\ format_context = "null"
  /\ codec_context = "null"
  /\ video_stream_index = -1
  /\ width = 0
  /\ frame_count = 0
  /\ member_frame_count = 0
  /\ lz_width = 0
  /\ files = {}
  /\ ex_log = <<>>
  /\ saved = <<>>
  /\ skipped = <<>>
  /\ save_res = SaveResources("none")
  /\ runs = 0
  /\ ex_res = NoResources

ExtractorIdle ==
  /\ streams = <<>> /\ container = <<>> /\ pos = 1 /\ dec_delay = 0
  /\ dec_buf = 0 /\ ex_pc = "off" /\ format_context = "null"
  /\ codec_context = "null" /\ video_stream_index = -1
  /\ width = 0 /\ frame_count = 0 /\ member_frame_count = 0 /\ lz_width = 0
  /\ files = {} /\ ex_log = <<>> /\ saved = <<>> /\ skipped = <<>>
  /\ save_res = SaveResources("none") /\ runs = 0
  /\ ex_res = NoResources

\* FrameExtractor::FrameExtractor(video_path).  The constructor returns
\* normally whatever failed.  With no video stream find_video_stream only
\* prints, and init_video_codec reads format_context->streams[-1]: the read
\* is out of bounds, the process may stop there or go on with what it read.
Construct ==
  /\ UNCHANGED <<mainVars, nmVars, cbVars, cfVars, twVars, dfVars>>
  /\ ex_pc = "new"
  /\ member_frame_count' = 0
  /\ \E o \in ConstructOutcomes :
       /\ ex_res' = ConstructResources(o)
       /\ format_context' = CASE o = "open_fail" -> "null"
                               [] o = "info_fail" -> avformat_close_input("open")
                               [] OTHER -> "open"
       /\ video_stream_index' = IF o \in {"open_fail", "info_fail"} THEN -1
                                ELSE find_video_stream(streams)
       /\ codec_context' =
            CASE o = "ok" -> "open"
              [] o \in {"params_fail", "no_decoder", "codec_fail"} ->
                   avcodec_free_context("open")
              [] OTHER -> "null"
       /\ \/ ex_pc' = "opened"
          \/ /\ o \notin {"open_fail", "info_fail", "alloc_fail"}
             /\ find_video_stream(streams) = -1
             /\ ex_pc' = "crashed"
  /\ UNCHANGED <<streams, container, pos, dec_delay, dec_buf, width,
                 frame_count, lz_width, files, ex_log, saved, skipped,
                 save_res, runs>>

\* get_leading_zeros(): count the video packets up to the end of the file,
\* seek back to the start, return the width.  av_seek_frame's result is not
\* looked at: when it fails the position stays at the end.  On an object
\* whose format_context is null av_read_frame is given a null pointer.
GetLeadingZeros ==
  /\ UNCHANGED <<mainVars, nmVars, cbVars, cfVars, twVars, dfVars,
                 member_frame_count, ex_res>>
  /\ ex_pc \in {"opened", "done"}
  /\ \/ /\ format_context = "open"
        /\ \E seek_ok \in BOOLEAN :
             pos' = IF seek_ok THEN 1 ELSE Len(container) + 1
        /\ lz_width' = LeadingZeros(CountFrom(container, pos, video_stream_index))
        /\ UNCHANGED ex_pc
     \/ /\ format_context = "null"
        /\ \/ /\ ex_pc' = "crashed"
              /\ UNCHANGED lz_width
           \/ /\ lz_width' = LeadingZeros(0)
              /\ UNCHANGED ex_pc
        /\ UNCHANGED pos
  /\ UNCHANGED <<streams, container, dec_delay, dec_buf, format_context,
                 codec_context, video_stream_index, width, frame_count,
                 files, ex_log, saved, skipped, save_res, runs>>

\* extract_frames(output_dir, width) is entered: int frame_count = 0
ExtractFrames ==
  /\ UNCHANGED <<mainVars, nmVars, cbVars, cfVars, twVars, dfVars,
                 member_frame_count, ex_res>>
  /\ ex_pc \in {"opened", "done"}
  /\ runs < MaxRuns
  /\ \E w \in (1..MaxWidth) \cup ({lz_width} \ {0}) : width' = w
  /\ frame_count' = 0
  /\ ex_log' = <<>>
  /\ saved' = <<>>
  /\ skipped' = <<>>
  /\ runs' = runs + 1
  /\ ex_pc' = "read"
  /\ UNCHANGED <<streams, container, pos, dec_delay, dec_buf, format_context,
                 codec_context, video_stream_index, lz_width, files, save_res>>

\* av_read_frame(format_context, ...) on an object whose format_context is
\* null: a null pointer is dereferenced, or the call fails and the loop ends
ReadNull ==
  /\ UNCHANGED <<mainVars, nmVars, cbVars, cfVars, twVars, dfVars,
                 member_frame_count, ex_res>>
  /\ ex_pc = "read"
  /\ format_context = "null"
  /\ ex_pc' \in {"done", "crashed"}
  /\ UNCHANGED <<streams, container, pos, dec_delay, dec_buf, format_context,
                 codec_context, video_stream_index, width, frame_count,
                 lz_width, files, ex_log, saved, skipped, save_res, runs>>

\* while (av_read_frame(format_context, &packet) >= 0): end of the file
\* leaves the loop, frees the frame and returns; no null packet is sent
ReadEnd ==
  /\ UNCHANGED <<mainVars, nmVars, cbVars, cfVars, twVars, dfVars,
                 member_frame_count, ex_res>>
  /\ ex_pc = "read"
  /\ format_context = "open"
  /\ pos > Len(container)
  /\ ex_pc' = "done"
  /\ UNCHANGED <<streams, container, pos, dec_delay, dec_buf, format_context,
                 codec_context, video_stream_index, width, frame_count,
                 lz_width, files, ex_log, saved, skipped, save_res, runs>>

\* extract_frames without the stream test of its STEP 2: a packet of another
\* stream is handed to the video decoder like a video packet
ReadOtherSent ==
  /\ UNCHANGED <<mainVars, nmVars, cbVars, cfVars, twVars, dfVars,
                 member_frame_count, ex_res>>
  /\ ex_pc = "read"
  /\ format_context = "open"
  /\ pos <= Len(container)
  /\ container[pos] # video_stream_index
  /\ pos' = pos + 1
  /\ dec_buf' = dec_buf + 1
  /\ ex_pc' = "receive"
  /\ UNCHANGED <<streams, container, dec_delay, format_context, codec_context,
                 video_stream_index, width, frame_count, lz_width, files,
                 ex_log, saved, skipped, save_res, runs>>

\* a packet of another stream: av_packet_unref, next packet
ReadOther ==
  /\ UNCHANGED <<mainVars, nmVars, cbVars, cfVars, twVars, dfVars,
                 member_frame_count, ex_res>>
  /\ ex_pc = "read"
  /\ format_context = "open"
  /\ pos <= Len(container)
  /\ container[pos] # video_stream_index
  /\ pos' = pos + 1
  /\ UNCHANGED <<streams, container, dec_delay, dec_buf, ex_pc,
                 format_context, codec_context, video_stream_index, width,
                 frame_count, lz_width, files, ex_log, saved, skipped,
                 save_res, runs>>

\* a packet of the video stream: avcodec_send_packet (result not looked at);
\* the decoder takes one more frame in, or rejects a damaged packet.  On an
\* object whose codec_context is null the decoder calls are given a null
\* pointer: they dereference it, or fail and the loop goes on.
ReadVideo ==
  /\ UNCHANGED <<mainVars, nmVars, cbVars, cfVars, twVars, dfVars,
                 member_frame_count, ex_res>>
  /\ ex_pc = "read"
  /\ format_context = "open"
  /\ pos <= Len(container)
  /\ container[pos] = video_stream_index
  /\ pos' = pos + 1
  /\ \/ /\ codec_context = "open"
        /\ \E accepted \in BOOLEAN :
             dec_buf' = IF accepted THEN dec_buf + 1 ELSE dec_buf
        /\ ex_pc' = "receive"
     \/ /\ codec_context = "null"
        /\ UNCHANGED dec_buf
        /\ ex_pc' \in {"read", "crashed"}
  /\ UNCHANGED <<streams, container, dec_delay, format_context, codec_context,
                 video_stream_index, width, frame_count, lz_width, files,
                 ex_log, saved, skipped, save_res, runs>>

\* avcodec_receive_frame(...) != 0: the for loop ends, av_packet_unref
ReceiveNone ==
  /\ UNCHANGED <<mainVars, nmVars, cbVars, cfVars, twVars, dfVars,
                 member_frame_count, ex_res>>
  /\ ex_pc = "receive"
  /\ dec_buf <= dec_delay
  /\ ex_pc' = "read"
  /\ UNCHANGED <<streams, container, pos, dec_delay, dec_buf, format_context,
                 codec_context, video_stream_index, width, frame_count,
                 lz_width, files, ex_log, saved, skipped, save_res, runs>>

\* one round of the for loop: a frame is received, its path is formatted,
\* save_frame_as_image runs, "[INFO] Processed <path>" is printed,
\* frame_count++
ReceiveFrame ==
  /\ UNCHANGED <<mainVars, nmVars, cbVars, cfVars, twVars, dfVars,
                 member_frame_count, ex_res>>
  /\ ex_pc = "receive"
  /\ dec_buf > dec_delay
  /\ dec_buf' = dec_buf - 1
  /\ LET frame_path == FramePath(OutputDir, width, frame_count, ThisPtr)
     IN \E o \in SaveOutcomes :
          /\ files' = SaveFile(files, frame_path, o)
          /\ saved' = IF o = "ok" THEN Append(saved, frame_count) ELSE saved
          /\ skipped' = IF o # "ok" THEN Append(skipped, frame_count) ELSE skipped
          /\ save_res' = SaveResources(o)
          /\ \/ /\ ex_log' = ex_log
                          \o (IF SaveReport(o) = "" THEN <<>>
                              ELSE <<[stream |-> "cerr", frame |-> frame_count]>>)
                          \o <<[stream |-> "cout", frame |-> frame_count]>>
                /\ frame_count' = frame_count + 1
                /\ ex_pc' = "receive"
             \/ /\ o \in SaveUndefined
                /\ ex_log' = ex_log \o <<[stream |-> "cerr", frame |-> frame_count]>>
                /\ frame_count' = frame_count
                /\ ex_pc' = "crashed"
  /\ UNCHANGED <<streams, container, pos, dec_delay, format_context,
                 codec_context, video_stream_index, width, lz_width, runs>>

\* FrameExtractor::~FrameExtractor(): avcodec_free_context(&codec_context),
\* then avformat_close_input(&format_context); each releases the object its
\* member points at, if any
DestroyExtractor ==
  /\ UNCHANGED <<mainVars, nmVars, cbVars, cfVars, twVars, dfVars, member_frame_count>>
  /\ ex_pc \in {"opened", "done"}
  /\ ex_res' = [ex_res EXCEPT
                  !.cc_freed = IF codec_context = "null" THEN @ ELSE @ + 1,
                  !.fc_freed = IF format_context = "null" THEN @ ELSE @ + 1]
  /\ codec_context' = avcodec_free_context(codec_context)
  /\ format_context' = avformat_close_input(format_context)
  /\ ex_pc' = "destroyed"
  /\ UNCHANGED <<streams, container, pos, dec_delay, dec_buf,
                 video_stream_index, width, frame_count, lz_width, files,
                 ex_log, saved, skipped, save_res, runs>>

\* find_video_stream() on an opened container, as the constructor calls it
FindVideoStream ==
  /\ UNCHANGED <<mainVars, nmVars, cbVars, cfVars, twVars, dfVars,
                 member_frame_count, ex_res>>
  /\ ex_pc = "find"
  /\ format_context = "open"
  /\ video_stream_index' = find_video_stream(streams)
  /\ ex_pc' = "found"
  /\ UNCHANGED <<streams, container, pos, dec_delay, dec_buf, format_context,
                 codec_context, width, frame_count, lz_width, files, ex_log,
                 saved, skipped, save_res, runs>>

\* ------------------------------------------- width and paths as computations
NamingIdle ==
  /\ total_frames = 0 /\ nm_width = 0 /\ nm_count = 0 /\ paths = <<>>

\* STEP 2 of get_leading_zeros applied to the count of the pre-pass
ComputeWidth ==
  /\ UNCHANGED <<mainVars, exVars, cbVars, cfVars, twVars, dfVars>>
  /\ nm_width = 0
  /\ nm_width' = LeadingZeros(total_frames)
  /\ UNCHANGED <<total_frames, nm_count, paths>>

\* the path extract_frames formats for the next frame of a video that yields
\* one frame per counted packet
NameFrame ==
  /\ UNCHANGED <<mainVars, exVars, cbVars, cfVars, twVars, dfVars>>
  /\ nm_width # 0
  /\ nm_count < total_frames
  /\ paths' = Append(paths, FramePath(OutputDir, nm_width, nm_count, ThisPtr))
  /\ nm_count' = nm_count + 1
  /\ UNCHANGED <<total_frames, nm_width>>

\* ------------------------------------------ two extractors, one directory
NoObject == [state |-> "none", this |-> <<>>, w |-> 0, total |-> 0, n |-> 0]

SharedIdle ==
  /\ objs = [o \in 1..2 |-> NoObject]
  /\ written = {}

\* FrameExtractor::FrameExtractor for object o: the object is placed at an
\* address no live object occupies (the address of a destroyed object is
\* free again); the caller will pass extract_frames a width
ConstructAt(o) ==
  /\ UNCHANGED <<mainVars, exVars, nmVars, cbVars, cfVars, dfVars>>
  /\ objs[o].state = "none"
  /\ \E a \in Addresses, t \in 0..MaxSharedFrames, w \in 1..MaxWidth :
       /\ \A x \in DOMAIN objs : objs[x].state = "alive" => objs[x].this # a
       /\ objs' = [objs EXCEPT ![o] = [state |-> "alive", this |-> a,
                                       w |-> w, total |-> t, n |-> 0]]
  /\ UNCHANGED written

\* one round of the for loop of extract_frames of object o: the frame is
\* written at the path formatted from output_dir, width, frame_count, this
WriteFrame(o) ==
  /\ UNCHANGED <<mainVars, exVars, nmVars, cbVars, cfVars, dfVars>>
  /\ objs[o].state = "alive"
  /\ objs[o].n < objs[o].total
  /\ written' = written \cup
       {[path |-> FramePath(OutputDir, objs[o].w, objs[o].n, objs[o].this),
         by |-> o]}
  /\ objs' = [objs EXCEPT ![o].n = @ + 1]

\* FrameExtractor::~FrameExtractor for object o
Destroy(o) ==
  /\ UNCHANGED <<mainVars, exVars, nmVars, cbVars, cfVars, dfVars>>
  /\ objs[o].state = "alive"
  /\ objs' = [objs EXCEPT ![o].state = "destroyed"]
  /\ UNCHANGED written

\* ------------------------------------------------------------- FrameCombiner
TargetSize == "1920x1080"
TargetFmt == "yuv420p"
\* codec_context_->time_base = {1, 30}; codec_context_->max_b_frames = 1
CodecTimeBaseDen == 30
MaxBFrames == 1
\* the denominators of the time base avformat_write_header gives the stream
\* (1/1000 in Matroska, 1/90000 by default)
StreamTimeBases == {1000, 90000}

\* What convert_png_to_av_frame comes to for one file:
\*   ok          a frame is decoded
\*   open_fail   open_input_file fails
\*   info_fail   retrieve_stream_info fails and closes the input, which the
\*               caller closes again
\*   no_stream   find_video_stream fails and closes the input, which the
\*               caller closes again
\*   no_decoder, ctx_fail, frame_fail, decode_fail
\*               the later steps fail; everything is released once
DecodeUndefined == {"info_fail", "no_stream"}
DecodeOutcomes == {"ok", "open_fail", "no_decoder", "ctx_fail", "frame_fail",
                   "decode_fail"} \cup DecodeUndefined

\* What rescale_frame_if_necessary comes to for a frame of another size
RescaleOutcomes == {"ok", "alloc_fail", "init_fail", "scale_fail"}

\* is_frame_size_matching: width and height only
is_frame_size_matching(f) == f.size = TargetSize

\* png_dir, and a directory inside it
PngDir == <<105, 110>>                            \* "in"
SubDir == PngDir \o <<47, 115, 117, 98>>          \* "in/sub"

\* the j-th image put into png_dir is f<7j mod 11>.png: f7.png, f3.png,
\* f10.png, f6.png, f2.png, ... (the order of creation is not the lexical one)
FileName(j) == <<102>> \o Digits((7 * j) % 11) \o Str_png

\* what else png_dir holds: a text file, a directory named like an image, a
\* directory with an image inside, an image with an upper-case extension, a
\* file named ".png" and a file named "png"
OtherEntries ==
  {[parent |-> PngDir, name |-> <<97, 46, 116, 120, 116>>, kind |-> "file"],
   [parent |-> PngDir, name |-> <<100>> \o Str_png, kind |-> "directory"],
   [parent |-> PngDir, name |-> <<115, 117, 98>>, kind |-> "directory"],
   [parent |-> SubDir, name |-> <<101>> \o Str_png, kind |-> "file"],
   [parent |-> PngDir, name |-> <<103, 46, 80, 78, 71>>, kind |-> "file"],
   [parent |-> PngDir, name |-> Str_png, kind |-> "file"],
   [parent |-> PngDir, name |-> <<112, 110, 103>>, kind |-> "file"]}

\* png_dir with k images in it
DirWith(k) ==
  OtherEntries \cup
    {[parent |-> PngDir, name |-> FileName(j), kind |-> "file"] : j \in 1..k}

\* std::filesystem::directory_iterator(path): the entries directly inside
directory_iterator(d, path) == {e \in d : e.parent = path}

\* entry.path().string()
EntryPath(e) == e.parent \o <<47>> \o e.name

\* std::filesystem::path::extension() of a file name: from its last dot on;
\* empty when there is no dot, when the only dot is the first character,
\* and for "." and ".."
Extension(name) ==
  LET dots == {k \in DOMAIN name : name[k] = 46}
      last == CHOOSE k \in dots : \A j \in dots : j <= k
  IN IF dots = {} \/ name \in {<<46>>, <<46, 46>>} THEN <<>>
     ELSE IF last = 1 THEN <<>>
     ELSE SubSeq(name, last, Len(name))

\* the test of STEP 3 without is_regular_file
HasPngExtension(e) == Extension(e.name) = Str_png

\* entry.is_regular_file() && entry.path().extension() == ".png"
IsPngFile(e) == e.kind = "file" /\ Extension(e.name) = Str_png

\* no rescale_frame_if_necessary call has failed in this round
NoRescaleFailure == [id |-> 0, live |-> {}]

\* the output file names combine_frames_to_video is given:
\* "o.mp4" and "o.avi"
Name_mp4 == <<111, 46, 109, 112, 52>>
Name_avi == <<111, 46, 97, 118, 105>>
OutputNames == {Name_mp4, Name_avi}

\* format_context_->oformat->video_codec: the default video codec of the
\* container format avformat_alloc_output_context2 guesses from the file
\* name's extension ("none": no format is guessed and the call fails)
DefaultVideoCodec(name) ==
  CASE Extension(name) = <<46, 109, 112, 52>> -> "h264"
    [] Extension(name) = <<46, 97, 118, 105>> -> "mpeg4"
    [] Extension(name) = <<46, 119, 101, 98, 109>> -> "vp9"
    [] OTHER -> "none"

\* STEP 2 and STEP 3 of setup_video_codec: the context is allocated for the
\* H.264 encoder and the seven settings are assigned
NoSettings == [codec_id |-> "none"]
EncoderSettings ==
  [codec_id |-> "h264", bit_rate |-> 8000000, size |-> TargetSize,
   time_base_den |-> CodecTimeBaseDen, framerate |-> 30, gop_size |-> 10,
   max_b_frames |-> MaxBFrames, pix_fmt |-> TargetFmt]

NoParameters == [codec_id |-> "none"]

NoCombinerResources == [cc |-> <<>>, fc |-> <<>>, pb |-> <<>>]

\* one more release of the object made last, when the call releases it
ReleaseLast(q, released) ==
  IF released /\ q # <<>> THEN [q EXCEPT ![Len(q)] = @ + 1] ELSE q

\* png_dir(png_dir), frames(), png_files(), format_context_(nullptr),
\* codec_context_(nullptr), stream_(nullptr), frame_(nullptr)
CombinerMembers ==
  /\ png_files = <<>>
  /\ codec_context_ = "null"
  /\ format_context_ = "null"
  /\ stream_ = "null"
  /\ pb_open = FALSE
  /\ header_written = FALSE
  /\ trailer_written = FALSE
  /\ file_idx = 1
  /\ i = 0
  /\ frame = "none"
  /\ enc_delay \in 0..MaxEncDelay
  /\ enc_queue = <<>>
  /\ muxed = <<>>
  /\ visited = <<>>
  /\ unreadable = {}
  /\ sent = <<>>
  /\ enc_failed = <<>>
  /\ cb_log = {}
  /\ heap = [live |-> {}, again |-> {}]
  /\ decoded = "none"
  /\ rescale_failed = NoRescaleFailure
  /\ b_held = FALSE
  /\ emitted = <<>>
  /\ stream_tb = 0
  /\ enc_cfg = NoSettings
  /\ codecpar = NoParameters
  /\ frames = <<>>
  /\ cb_res = NoCombinerResources

\* a FrameCombiner on which combine_frames_to_video("o.mp4") has just been
\* called, its first operation
CombinerInit ==
  /\ CombinerMembers
  /\ dir \in {DirWith(k) : k \in 0..MaxFiles}
  /\ cb_pc = "setup"
  /\ output_filename = Name_mp4
  /\ ops = 1

\* a FrameCombiner just constructed
CombinerConstructed ==
  /\ CombinerMembers
  /\ dir \in {DirWith(k) : k \in 0..MaxLifeFiles}
  /\ cb_pc = "new"
  /\ output_filename = <<>>
  /\ ops = 0

CombinerIdle ==
  /\ dir = {} /\ png_files = <<>> /\ codec_context_ = "null"
  /\ format_context_ = "null" /\ stream_ = "null" /\ pb_open = FALSE
  /\ header_written = FALSE /\ trailer_written = FALSE /\ cb_pc = "off"
  /\ file_idx = 1 /\ i = 0 /\ frame = "none" /\ enc_delay = 0
  /\ enc_queue = <<>> /\ muxed = <<>> /\ visited = <<>> /\ unreadable = {}
  /\ sent = <<>> /\ enc_failed = <<>> /\ cb_log = {}
  /\ heap = [live |-> {}, again |-> {}]
  /\ decoded = "none" /\ b_held = FALSE /\ emitted = <<>> /\ stream_tb = 0
  /\ rescale_failed = NoRescaleFailure
  /\ output_filename = <<>> /\ enc_cfg = NoSettings /\ codecpar = NoParameters
  /\ frames = <<>> /\ cb_res = NoCombinerResources /\ ops = 0

\* a setup_video_codec that takes the resolution from the images in png_dir
setup_video_codec_sized_by_input ==
  /\ UNCHANGED <<mainVars, exVars, nmVars, twVars, dfVars, rescale_failed>>
  /\ UNCHANGED <<output_filename, codecpar, frames, ops>>
  /\ cb_pc = "setup"
  /\ \E o \in {"ok", "no_encoder", "alloc_fail", "open_fail"} :
       /\ codec_context_' = CASE o = "ok" -> "open"
                              [] o = "open_fail" -> "closed"
                              [] o = "alloc_fail" -> "null"
                              [] OTHER -> codec_context_
       /\ enc_cfg' = CASE o \in {"ok", "open_fail"} ->
                            [EncoderSettings EXCEPT
                               !.size = IF \E e \in dir : IsPngFile(e)
                                        THEN "other" ELSE TargetSize]
                       [] o = "alloc_fail" -> NoSettings
                       [] OTHER -> enc_cfg
       /\ cb_res' = IF o \in {"ok", "open_fail"}
                    THEN [cb_res EXCEPT !.cc = Append(@, 0)]
                    ELSE cb_res
  /\ cb_pc' = "open_output"
  /\ UNCHANGED <<dir, png_files, format_context_, stream_, pb_open,
                 header_written, trailer_written, file_idx, i, frame,
                 enc_delay, enc_queue, muxed, visited, unreadable, sent,
                 enc_failed, cb_log, heap, decoded, b_held, emitted, stream_tb>>

\* STEP 1 of combine_frames_to_video.  Every failure prints and returns;
\* combine_frames_to_video goes on to open_output_file whatever happened.
\* codec_context_ is assigned the new context (null when the allocation
\* fails) without a look at what it pointed at; when no encoder is found it
\* keeps its value.
setup_video_codec ==
  /\ UNCHANGED <<mainVars, exVars, nmVars, twVars, dfVars, rescale_failed>>
  /\ UNCHANGED <<output_filename, codecpar, frames, ops>>
  /\ cb_pc = "setup"
  /\ \E o \in {"ok", "no_encoder", "alloc_fail", "open_fail"} :
       /\ codec_context_' = CASE o = "ok" -> "open"
                              [] o = "open_fail" -> "closed"
                              [] o = "alloc_fail" -> "null"
                              [] OTHER -> codec_context_
       /\ enc_cfg' = CASE o \in {"ok", "open_fail"} -> EncoderSettings
                       [] o = "alloc_fail" -> NoSettings
                       [] OTHER -> enc_cfg
       /\ cb_res' = IF o \in {"ok", "open_fail"}
                    THEN [cb_res EXCEPT !.cc = Append(@, 0)]
                    ELSE cb_res
  /\ cb_pc' = "open_output"
  /\ UNCHANGED <<dir, png_files, format_context_, stream_, pb_open,
                 header_written, trailer_written, file_idx, i, frame,
                 enc_delay, enc_queue, muxed, visited, unreadable, sent,
                 enc_failed, cb_log, heap, decoded, b_held, emitted, stream_tb>>

\* STEP 2: open_output_file.  Every failure prints and returns, and the
\* caller goes on.  avformat_alloc_output_context2 overwrites
\* format_context_ (null when it fails) without a look at what it pointed
\* at.  STEP 4 takes the stream's codec id from the container format and
\* its width, height and format from codec_context_; with no codec context
\* that read is a null dereference.
open_output_file ==
  /\ UNCHANGED <<mainVars, exVars, nmVars, twVars, dfVars, rescale_failed>>
  /\ UNCHANGED <<output_filename, enc_cfg, frames, ops>>
  /\ cb_pc = "open_output"
  /\ \E o \in {"ok", "ctx_fail", "stream_fail", "avio_fail", "header_fail"},
        tb \in StreamTimeBases :
       /\ (o # "ok" => tb = 1000)
       /\ (DefaultVideoCodec(output_filename) = "none" => o = "ctx_fail")
       /\ format_context_' = IF o = "ctx_fail" THEN "null" ELSE "alloc"
       /\ stream_' = CASE o = "ctx_fail" -> stream_
                       [] o = "stream_fail" -> "null"
                       [] OTHER -> "set"
       /\ codecpar' =
            IF o \in {"ctx_fail", "stream_fail"} THEN NoParameters
            ELSE [codec_id |-> DefaultVideoCodec(output_filename),
                  codec_type |-> "video",
                  size |-> IF codec_context_ = "null" THEN "undefined"
                           ELSE enc_cfg.size,
                  format |-> IF codec_context_ = "null" THEN "undefined"
                             ELSE enc_cfg.pix_fmt]
       /\ cb_res' =
            [cb_res EXCEPT
               !.fc = IF o = "ctx_fail" THEN @ ELSE Append(@, 0),
               !.pb = IF o \in {"ok", "header_fail"} THEN Append(@, 0) ELSE @]
       /\ pb_open' = (o \in {"ok", "header_fail"})
       /\ header_written' = (o = "ok")
       /\ stream_tb' = IF o = "ok" THEN tb ELSE stream_tb
       /\ \/ cb_pc' = "list"
          \/ /\ o \notin {"ctx_fail", "stream_fail"}
             /\ codec_context_ = "null"
             /\ cb_pc' = "crashed"
  /\ UNCHANGED <<dir, png_files, codec_context_, trailer_written, file_idx, i,
                 frame, enc_delay, enc_queue, muxed, visited, unreadable,
                 sent, enc_failed, cb_log, heap, decoded, b_held, emitted>>

RECURSIVE SortedSeq(_)
\* the paths the range-for pushes.  The order in which directory_iterator
\* hands out the entries is unspecified and the sort that follows makes it
\* immaterial: they are taken in ascending order of std::string operator<
SortedSeq(S) ==
  IF S = {} THEN <<>>
  ELSE LET m == CHOOSE x \in S : \A y \in S \ {x} : LexLess(x, y)
       IN <<m>> \o SortedSeq(S \ {m})

RECURSIVE std_sort(_)
\* std::sort of a vector of path strings, equal strings included
std_sort(q) ==
  IF q = <<>> THEN <<>>
  ELSE LET rest == std_sort(Tail(q))
           below == SelectSeq(rest, LAMBDA x : LexLess(x, Head(q)))
           above == SelectSeq(rest, LAMBDA x : ~LexLess(x, Head(q)))
       IN below \o <<Head(q)>> \o above

\* STEP 3: get_png_files_in_dir pushes the path of every regular file of
\* png_dir whose extension is ".png" onto png_files, which it does not
\* clear, and sorts png_files
get_png_files_in_dir ==
  /\ UNCHANGED <<mainVars, exVars, nmVars, twVars, dfVars, cfVars, rescale_failed>>
  /\ cb_pc = "list"
  /\ png_files' =
       std_sort(png_files \o
                SortedSeq({EntryPath(e) :
                             e \in {x \in directory_iterator(dir, PngDir) :
                                      IsPngFile(x)}}))
  /\ file_idx' = 1
  /\ i' = 0
  /\ cb_pc' = "convert"
  /\ UNCHANGED <<dir, codec_context_, format_context_, stream_, pb_open,
                 header_written, trailer_written, frame, enc_delay, enc_queue,
                 muxed, visited, unreadable, sent, enc_failed, cb_log, heap,
                 decoded, b_held, emitted, stream_tb>>

\* av_frame_alloc: the frame id comes into being
FrameAlloc(h, id) == [h EXCEPT !.live = @ \cup {id}]

\* av_frame_free(&frame) on the frame id: the frame is released, or, when
\* it was released before, released again
FrameFree(h, id) ==
  IF id \in h.live THEN [h EXCEPT !.live = @ \ {id}]
  ELSE [h EXCEPT !.again = @ \cup {id}]

\* the frame convert_png_to_av_frame returns for the file at position p
DecodedId(p) == 2 * p - 1

\* a rescale that copies every frame, whatever its size
rescale_frame_always(f, h, r) ==
  CASE r = "alloc_fail" ->
         [ok |-> FALSE, frame |-> "none", heap |-> FrameFree(h, f.id)]
    [] r \in {"init_fail", "scale_fail"} ->
         [ok |-> FALSE, frame |-> "none",
          heap |-> FrameFree(FrameFree(FrameAlloc(h, f.id + 1), f.id + 1),
                             f.id)]
    [] OTHER ->
         [ok |-> TRUE,
          frame |-> [id |-> f.id + 1, size |-> TargetSize,
                     fmt |-> TargetFmt, pts |-> f.pts],
          heap |-> FrameFree(FrameAlloc(h, f.id + 1), f.id)]

\* a rescale that leaves the original to its caller when it fails
rescale_frame_caller_frees(f, h, r) ==
  IF is_frame_size_matching(f) THEN [ok |-> TRUE, frame |-> f, heap |-> h]
  ELSE CASE r = "alloc_fail" ->
              [ok |-> FALSE, frame |-> "none", heap |-> h]
         [] r \in {"init_fail", "scale_fail"} ->
              [ok |-> FALSE, frame |-> "none",
               heap |-> FrameFree(FrameAlloc(h, f.id + 1), f.id + 1)]
         [] OTHER ->
              [ok |-> TRUE,
               frame |-> [id |-> f.id + 1, size |-> TargetSize,
                          fmt |-> TargetFmt, pts |-> f.pts],
               heap |-> FrameFree(FrameAlloc(h, f.id + 1), f.id)]

\* rescale_frame_if_necessary(f) with the frames in h, when the steps of a
\* rescale come to r: the frame handed back (ok) or nullptr (~ok), and the
\* frames afterwards.  The rescaled frame is a new object; the original is
\* freed on success and on every failure.
rescale_frame_if_necessary(f, h, r) ==
  IF is_frame_size_matching(f) THEN [ok |-> TRUE, frame |-> f, heap |-> h]
  ELSE CASE r = "alloc_fail" ->
              [ok |-> FALSE, frame |-> "none", heap |-> FrameFree(h, f.id)]
         [] r \in {"init_fail", "scale_fail"} ->
              [ok |-> FALSE, frame |-> "none",
               heap |-> FrameFree(FrameFree(FrameAlloc(h, f.id + 1), f.id + 1),
                                  f.id)]
         [] OTHER ->
              [ok |-> TRUE,
               frame |-> [id |-> f.id + 1, size |-> TargetSize,
                          fmt |-> TargetFmt, pts |-> f.pts],
               heap |-> FrameFree(FrameAlloc(h, f.id + 1), f.id)]

\* x / d rounded to the nearest integer, halves away from zero
\* (AV_ROUND_NEAR_INF)
RoundNearInf(x, d) ==
  IF x >= 0 THEN (x + d \div 2) \div d ELSE -((-x + d \div 2) \div d)

\* the rescale applied a second time to its own result
av_packet_rescale_ts_twice(ts, from_den, to_den) ==
  RoundNearInf(RoundNearInf(ts * to_den, from_den) * to_den, from_den)

\* the rescale with the two time bases exchanged
av_packet_rescale_ts_swapped(ts, from_den, to_den) ==
  RoundNearInf(ts * from_den, to_den)

\* av_packet_rescale_ts(packet, codec_context_->time_base,
\* stream_->time_base) for one timestamp: from 1/from_den to 1/to_den
av_packet_rescale_ts(ts, from_den, to_den) == RoundNearInf(ts * to_den, from_den)

\* the decoding timestamp the encoder gives its n-th packet: with B-frames
\* the packets leave in decoding order and each carries the presentation
\* timestamp of the frame sent one place earlier, the first one a frame
\* interval before the first frame
DtsOf(n) == IF n = 1 THEN sent[1].pts - MaxBFrames ELSE sent[n - 1].pts

\* q without its k-th element
RemoveAt(q, k) == [x \in 1..(Len(q) - 1) |-> IF x < k THEN q[x] ELSE q[x + 1]]

\* STEP 1 and 2 of one round of convert_pngs_to_frames: decode the file and
\* rescale the frame.  A file that fails is reported and skipped (continue).
ConvertDecode ==
  /\ UNCHANGED <<mainVars, exVars, nmVars, twVars, dfVars, cfVars>>
  /\ cb_pc = "convert"
  /\ file_idx <= Len(png_files)
  /\ visited' = Append(visited, file_idx)
  /\ \E d \in DecodeOutcomes :
       \/ /\ d = "ok"
          /\ \E size \in {TargetSize, "other"}, fmt \in {"rgba", TargetFmt},
                r \in RescaleOutcomes :
               LET f == [id |-> DecodedId(file_idx), size |-> size,
                         fmt |-> fmt, pts |-> -1]
                   res == rescale_frame_if_necessary(
                            f, FrameAlloc(heap, f.id), r)
               IN /\ \/ /\ codec_context_ = "null"     \* codec_context_->width
                        /\ r = "ok"
                        /\ decoded' = f
                        /\ heap' = FrameAlloc(heap, f.id)
                        /\ rescale_failed' = NoRescaleFailure
                        /\ cb_pc' = "crashed"
                        /\ UNCHANGED <<frame, file_idx, unreadable, cb_log>>
                     \/ /\ res.ok
                        /\ r = "ok"
                        /\ decoded' = f
                        /\ frame' = res.frame
                        /\ heap' = res.heap
                        /\ rescale_failed' = NoRescaleFailure
                        /\ cb_pc' = "encode"
                        /\ UNCHANGED <<file_idx, unreadable, cb_log>>
                     \/ /\ ~res.ok
                        /\ heap' = res.heap       \* continue: nothing freed
                        /\ decoded' = "none"
                        /\ rescale_failed' = [id |-> f.id,
                                              live |-> res.heap.live]
                        /\ unreadable' = unreadable \cup {file_idx}
                        /\ cb_log' = cb_log \cup {file_idx}
                        /\ file_idx' = file_idx + 1
                        /\ UNCHANGED <<frame, cb_pc>>
       \/ /\ d # "ok"
          /\ unreadable' = unreadable \cup {file_idx}
          /\ cb_log' = cb_log \cup {file_idx}
          /\ decoded' = "none"
          /\ rescale_failed' = NoRescaleFailure
          /\ \/ /\ file_idx' = file_idx + 1
                /\ UNCHANGED <<frame, cb_pc>>
             \/ /\ d \in DecodeUndefined
                /\ cb_pc' = "crashed"
                /\ UNCHANGED <<frame, file_idx>>
          /\ UNCHANGED heap
  /\ UNCHANGED <<dir, png_files, codec_context_, format_context_, stream_,
                 pb_open, header_written, trailer_written, i, enc_delay,
                 enc_queue, muxed, sent, enc_failed, b_held, emitted,
                 stream_tb>>

\* STEP 3 and the send of STEP 4: frame->pts = i++, avcodec_send_frame.
\* When the send fails encode_and_write_frame frees the frame and returns
\* false; the caller frees the frame a second time and continues.
EncodeSend ==
  /\ UNCHANGED <<mainVars, exVars, nmVars, twVars, dfVars, cfVars, rescale_failed>>
  /\ cb_pc = "encode"
  /\ i' = i + 1
  /\ decoded' = "none"
  /\ \E ok \in BOOLEAN :
       \/ /\ ok
          /\ codec_context_ = "open"
          /\ frame' = [frame EXCEPT !.pts = i]
          /\ enc_queue' = Append(enc_queue, i)
          /\ sent' = Append(sent, [pos |-> file_idx, pts |-> i,
                                   size |-> frame.size, fmt |-> frame.fmt])
          /\ cb_pc' = "drain"
          /\ UNCHANGED <<file_idx, enc_failed, cb_log, heap>>
       \/ /\ ~ok
          /\ frame' = "none"
          /\ heap' = FrameFree(FrameFree(heap, frame.id), frame.id)
          /\ enc_failed' = Append(enc_failed, file_idx)
          /\ cb_log' = cb_log \cup {file_idx}
          /\ \/ /\ cb_pc' = "convert"
                /\ file_idx' = file_idx + 1
             \/ /\ cb_pc' = "crashed"
                /\ UNCHANGED file_idx
          /\ UNCHANGED <<enc_queue, sent>>
  /\ UNCHANGED <<dir, png_files, codec_context_, format_context_, stream_,
                 pb_open, header_written, trailer_written, enc_delay, muxed,
                 visited, unreadable, b_held, emitted, stream_tb>>

\* one round of the while loop of encode_and_write_frame: a packet is
\* received, rescaled and written.  With max_b_frames = 1 the encoder may,
\* after the first frame, code the frame after the oldest one first (a
\* P-frame), and then the oldest one as a B-frame.  When the write fails the frame is freed, false
\* is returned, and the caller frees the frame a second time and continues.
\* Writing to a container that was never opened is undefined.
DrainPacket ==
  /\ UNCHANGED <<mainVars, exVars, nmVars, twVars, dfVars, cfVars, rescale_failed>>
  /\ cb_pc = "drain"
  /\ Len(enc_queue) > enc_delay
  /\ \E k \in 1..(MaxBFrames + 1) :
       /\ k <= Len(enc_queue)
       /\ (b_held \/ emitted = <<>>) => k = 1
       /\ enc_queue' = RemoveAt(enc_queue, k)
       /\ b_held' = (k > 1)
       /\ \E ok \in BOOLEAN :
            /\ emitted' = Append(emitted, [pts |-> enc_queue[k],
                                           dts |-> DtsOf(Len(emitted) + 1),
                                           written |-> ok])
            /\ \/ /\ ok
                  /\ header_written
                  /\ muxed' = Append(muxed,
                       [pts |-> av_packet_rescale_ts(
                                  enc_queue[k], CodecTimeBaseDen, stream_tb),
                        dts |-> av_packet_rescale_ts(
                                  DtsOf(Len(emitted) + 1), CodecTimeBaseDen,
                                  stream_tb)])
                  /\ UNCHANGED <<cb_pc, file_idx, frame, enc_failed, cb_log,
                                 heap>>
               \/ /\ ~ok
                  /\ frame' = "none"
                  /\ heap' = FrameFree(FrameFree(heap, frame.id), frame.id)
                  /\ enc_failed' = Append(enc_failed, file_idx)
                  /\ cb_log' = cb_log \cup {file_idx}
                  /\ \/ /\ cb_pc' = "convert"
                        /\ file_idx' = file_idx + 1
                     \/ /\ cb_pc' = "crashed"
                        /\ UNCHANGED file_idx
                  /\ UNCHANGED muxed
  /\ UNCHANGED <<dir, png_files, codec_context_, format_context_, stream_,
                 pb_open, header_written, trailer_written, i, enc_delay,
                 visited, unreadable, sent, decoded, stream_tb>>

\* avcodec_receive_packet(...) != 0: the loop ends, true is returned, the
\* caller frees the frame and takes the next file
DrainEnd ==
  /\ UNCHANGED <<mainVars, exVars, nmVars, twVars, dfVars, cfVars, rescale_failed>>
  /\ cb_pc = "drain"
  /\ Len(enc_queue) <= enc_delay
  /\ heap' = FrameFree(heap, frame.id)
  /\ frame' = "none"
  /\ file_idx' = file_idx + 1
  /\ cb_pc' = "convert"
  /\ UNCHANGED <<dir, png_files, codec_context_, format_context_, stream_,
                 pb_open, header_written, trailer_written, i, enc_delay,
                 enc_queue, muxed, visited, unreadable, sent, enc_failed,
                 cb_log, decoded, b_held, emitted, stream_tb>>

\* the range-for of convert_pngs_to_frames is over
ConvertEnd ==
  /\ UNCHANGED <<mainVars, exVars, nmVars, twVars, dfVars, cfVars, rescale_failed>>
  /\ cb_pc = "convert"
  /\ file_idx > Len(png_files)
  /\ cb_pc' = "process"
  /\ UNCHANGED <<dir, png_files, codec_context_, format_context_, stream_,
                 pb_open, header_written, trailer_written, file_idx, i, frame,
                 enc_delay, enc_queue, muxed, visited, unreadable, sent,
                 enc_failed, cb_log, heap, decoded, b_held, emitted, stream_tb>>

\* the frames process_frames would send: one per element of v, pts = i
FramesSent(v) ==
  [k \in 1..Len(v) |-> [pos |-> 0, pts |-> k - 1, size |-> TargetSize,
                        fmt |-> TargetFmt]]

\* a process_frames whose loop runs over the listed files instead of the
\* member frames
process_frames_over_files ==
  /\ UNCHANGED <<mainVars, exVars, nmVars, twVars, dfVars, cfVars, rescale_failed>>
  /\ cb_pc = "process"
  /\ sent' = sent \o FramesSent(png_files)
  /\ enc_queue' = enc_queue \o [k \in 1..Len(png_files) |-> k - 1]
  /\ \/ cb_pc' = "trailer"
     \/ /\ codec_context_ = "null"
        /\ cb_pc' = "crashed"
  /\ UNCHANGED <<dir, png_files, codec_context_, format_context_, stream_,
                 pb_open, header_written, trailer_written, file_idx, i, frame,
                 enc_delay, muxed, visited, unreadable, enc_failed, cb_log,
                 heap, decoded, b_held, emitted, stream_tb>>

\* STEP 5: process_frames.  setup_frame allocates a frame (reading
\* codec_context_); the loop sends one frame per element of the member
\* frames, with pts = i; the frame is freed.  Nothing in the program puts an
\* element into frames, so the loop body (and the packets
\* encode_and_write_frame would drain in it) is never run.  No null frame is
\* sent.
process_frames ==
  /\ UNCHANGED <<mainVars, exVars, nmVars, twVars, dfVars, cfVars, rescale_failed>>
  /\ cb_pc = "process"
  /\ sent' = sent \o FramesSent(frames)
  /\ enc_queue' = enc_queue \o [k \in 1..Len(frames) |-> k - 1]
  /\ \/ cb_pc' = "trailer"
     \/ /\ codec_context_ = "null"
        /\ cb_pc' = "crashed"
  /\ UNCHANGED <<dir, png_files, codec_context_, format_context_, stream_,
                 pb_open, header_written, trailer_written, file_idx, i, frame,
                 enc_delay, muxed, visited, unreadable, enc_failed, cb_log,
                 heap, decoded, b_held, emitted, stream_tb>>

\* STEP 6: write_trailer, called whatever the earlier steps came to.
\* av_write_trailer on a container whose header was never written is
\* undefined: the muxer's trailer routine runs on a muxer that was not
\* initialised; it stops the process, returns an error, or, when the output
\* file is open, puts its trailer into it.
write_trailer ==
  /\ UNCHANGED <<mainVars, exVars, nmVars, twVars, dfVars, cfVars, rescale_failed>>
  /\ cb_pc = "trailer"
  /\ \/ /\ header_written
        /\ trailer_written' = TRUE
        /\ cb_pc' = "done"
     \/ /\ ~header_written
        /\ \/ /\ UNCHANGED trailer_written
              /\ cb_pc' \in {"done", "crashed"}
           \/ /\ pb_open
              /\ trailer_written' = TRUE
              /\ cb_pc' = "done"
  /\ UNCHANGED <<dir, png_files, codec_context_, format_context_, stream_,
                 pb_open, header_written, file_idx, i, frame, enc_delay,
                 enc_queue, muxed, visited, unreadable, sent, enc_failed,
                 cb_log, heap, decoded, b_held, emitted, stream_tb>>

\* combine_frames_to_video(output_filename) is called on an object no call
\* is running on.  The members keep what the earlier calls left in them;
\* the records of the run (the frames it allocates, visits and sends, the
\* packets emitted and muxed into this call's container) start empty.
combine_frames_to_video ==
  /\ UNCHANGED <<mainVars, exVars, nmVars, twVars, dfVars>>
  /\ cb_pc \in {"new", "done"}
  /\ ops < MaxOps
  /\ ops' = ops + 1
  /\ output_filename' \in OutputNames
  /\ cb_pc' = "setup"
  /\ file_idx' = 1 /\ i' = 0 /\ frame' = "none" /\ decoded' = "none"
  /\ enc_queue' = <<>> /\ b_held' = FALSE /\ emitted' = <<>> /\ muxed' = <<>>
  /\ visited' = <<>> /\ unreadable' = {} /\ sent' = <<>>
  /\ enc_failed' = <<>> /\ cb_log' = {} /\ rescale_failed' = NoRescaleFailure
  /\ trailer_written' = FALSE /\ stream_tb' = 0
  /\ heap' = [live |-> {}, again |-> {}]
  /\ UNCHANGED <<dir, png_files, codec_context_, format_context_, stream_,
                 pb_open, header_written, enc_delay, enc_cfg, codecpar,
                 frames, cb_res>>

\* the body of cleanup_resources: avcodec_free_context(&codec_context_)
\* frees the context and sets the member to null; avio_close runs when
\* format_context_ and its pb are not null; avformat_free_context frees the
\* context and leaves format_context_ as it was; av_frame_free(&frame_)
\* finds frame_ null.  When format_context_ points at a freed context the
\* test reads freed memory and the context, and the handle it still names,
\* are released again: the process stops there or goes on.
ReleaseAll(after) ==
  /\ cb_pc \in {"new", "done"}
  /\ cb_res' = [cc |-> ReleaseLast(cb_res.cc, codec_context_ # "null"),
                pb |-> ReleaseLast(cb_res.pb,
                                   format_context_ # "null" /\ pb_open),
                fc |-> ReleaseLast(cb_res.fc, format_context_ # "null")]
  /\ codec_context_' = avcodec_free_context(codec_context_)
  /\ enc_cfg' = NoSettings
  /\ format_context_' = IF format_context_ = "null" THEN "null" ELSE "freed"
  /\ codecpar' = NoParameters
  /\ \/ cb_pc' = after
     \/ /\ format_context_ = "freed"
        /\ cb_pc' = "crashed"
  /\ UNCHANGED <<dir, png_files, stream_, pb_open, header_written,
                 trailer_written, file_idx, i, frame, enc_delay, enc_queue,
                 muxed, visited, unreadable, sent, enc_failed, cb_log, heap,
                 decoded, b_held, emitted, stream_tb, rescale_failed,
                 output_filename, frames>>

\* cleanup_resources(), called by the owner of the object
cleanup_resources ==
  /\ UNCHANGED <<mainVars, exVars, nmVars, twVars, dfVars>>
  /\ ops < MaxOps
  /\ ops' = ops + 1
  /\ ReleaseAll(cb_pc)

\* FrameCombiner::~FrameCombiner(): cleanup_resources()
DestroyCombiner ==
  /\ UNCHANGED <<mainVars, exVars, nmVars, twVars, dfVars, ops>>
  /\ ReleaseAll("destroyed")

\* ------------------------------------------------------------- decode_frames
\* a packet of the image file: of the video stream and decodable, of the
\* video stream and rejected by avcodec_send_packet, or of another stream
PacketKinds == {"video", "damaged", "other"}

\* AVFormatContext *format_context = nullptr: nothing made, nothing released
NoImageResources == [fc_made |-> 0, fc_closed |-> 0, cc_made |-> 0,
                     cc_freed |-> 0, fr_made |-> 0, fr_freed |-> 0]

DecodeIdle ==
  /\ png_packets = <<>> /\ png_pos = 1 /\ frame_finished = 0
  /\ received = 0 /\ df_pc = "off" /\ img_res = NoImageResources

\* decode_frames is entered with the image file just opened
DecodeInit ==
  /\ png_packets \in SeqsUpTo(PacketKinds, MaxPngPackets)
  /\ png_pos = 1
  /\ frame_finished = 0
  /\ received = 0
  /\ df_pc = "read"
  /\ img_res = [NoImageResources EXCEPT !.fc_made = 1, !.cc_made = 1,
                                        !.fr_made = 1]

\* a packet of another stream: av_packet_unref, next packet
DecodeOther ==
  /\ UNCHANGED <<mainVars, exVars, nmVars, cbVars, cfVars, twVars, img_res>>
  /\ df_pc = "read"
  /\ png_pos <= Len(png_packets)
  /\ png_packets[png_pos] = "other"
  /\ png_pos' = png_pos + 1
  /\ UNCHANGED <<png_packets, frame_finished, received, df_pc>>

\* STEP 2 fails: avcodec_send_packet < 0, break; frame_finished is 0 and
\* false is returned without another av_read_frame
DecodeSendFailed ==
  /\ UNCHANGED <<mainVars, exVars, nmVars, cbVars, cfVars, twVars, img_res>>
  /\ df_pc = "read"
  /\ png_pos <= Len(png_packets)
  /\ png_packets[png_pos] = "damaged"
  /\ df_pc' = "false"
  /\ UNCHANGED <<png_packets, png_pos, frame_finished, received>>

\* the packet is sent and the decoder has no frame yet: next packet
DecodeNoFrame ==
  /\ UNCHANGED <<mainVars, exVars, nmVars, cbVars, cfVars, twVars, img_res>>
  /\ df_pc = "read"
  /\ png_pos <= Len(png_packets)
  /\ png_packets[png_pos] = "video"
  /\ png_pos' = png_pos + 1
  /\ UNCHANGED <<png_packets, frame_finished, received, df_pc>>

\* a loop that goes on reading after a frame was received
DecodeFrameNoBreak ==
  /\ UNCHANGED <<mainVars, exVars, nmVars, cbVars, cfVars, twVars, img_res>>
  /\ df_pc = "read"
  /\ png_pos <= Len(png_packets)
  /\ png_packets[png_pos] = "video"
  /\ received' = received + 1
  /\ frame_finished' = 1
  /\ png_pos' = png_pos + 1
  /\ UNCHANGED <<png_packets, df_pc>>

\* STEP 3: the packet is sent and avcodec_receive_frame returns 0:
\* frame_finished = 1, break, true is returned
DecodeFrame ==
  /\ UNCHANGED <<mainVars, exVars, nmVars, cbVars, cfVars, twVars, img_res>>
  /\ df_pc = "read"
  /\ png_pos <= Len(png_packets)
  /\ png_packets[png_pos] = "video"
  /\ received' = received + 1
  /\ frame_finished' = 1
  /\ df_pc' = "true"
  /\ UNCHANGED <<png_packets, png_pos>>

\* av_read_frame < 0: the loop ends; STEP 4 returns frame_finished != 0
DecodeEnd ==
  /\ UNCHANGED <<mainVars, exVars, nmVars, cbVars, cfVars, twVars, img_res>>
  /\ df_pc = "read"
  /\ png_pos > Len(png_packets)
  /\ df_pc' = IF frame_finished # 0 THEN "true" ELSE "false"
  /\ UNCHANGED <<png_packets, png_pos, frame_finished, received>>

\* ---------------------------------------------------- convert_png_to_av_frame
\* convert_png_to_av_frame is entered with the path of one image file
ConvertPngInit ==
  /\ png_packets \in SeqsUpTo(PacketKinds, MaxPngPackets)
  /\ png_pos = 1
  /\ frame_finished = 0
  /\ received = 0
  /\ df_pc = "open"
  /\ img_res = NoImageResources

\* STEP 1: open_input_file; avformat_open_input leaves format_context null
\* when it fails
open_input_file ==
  /\ UNCHANGED <<mainVars, exVars, nmVars, cbVars, cfVars, twVars>>
  /\ df_pc = "open"
  /\ \/ /\ img_res' = [img_res EXCEPT !.fc_made = 1]
        /\ df_pc' = "info"
     \/ /\ df_pc' = "null_returned"
        /\ UNCHANGED img_res
  /\ UNCHANGED <<png_packets, png_pos, frame_finished, received>>

\* STEP 2: retrieve_stream_info(format_context).  On failure it closes the
\* input through its own copy of the pointer; the caller's pointer still
\* holds the address and the caller closes the input again.
retrieve_stream_info ==
  /\ UNCHANGED <<mainVars, exVars, nmVars, cbVars, cfVars, twVars>>
  /\ df_pc = "info"
  /\ \/ /\ df_pc' = "find"
        /\ UNCHANGED img_res
     \/ /\ img_res' = [img_res EXCEPT !.fc_closed = @ + 2]
        /\ df_pc' \in {"null_returned", "crashed"}
  /\ UNCHANGED <<png_packets, png_pos, frame_finished, received>>

\* STEP 3: find_video_stream(format_context): av_find_best_stream.  A file
\* that holds a video packet has a video stream.  On failure the input is
\* closed through the copy of the pointer and again by the caller.
find_best_video_stream ==
  /\ UNCHANGED <<mainVars, exVars, nmVars, cbVars, cfVars, twVars>>
  /\ df_pc = "find"
  /\ \/ /\ df_pc' = "decoder"
        /\ UNCHANGED img_res
     \/ /\ \A k \in DOMAIN png_packets : png_packets[k] = "other"
        /\ img_res' = [img_res EXCEPT !.fc_closed = @ + 2]
        /\ df_pc' \in {"null_returned", "crashed"}
  /\ UNCHANGED <<png_packets, png_pos, frame_finished, received>>

\* STEP 5: find_decoder; on failure the input is closed and nullptr returned
find_decoder ==
  /\ UNCHANGED <<mainVars, exVars, nmVars, cbVars, cfVars, twVars>>
  /\ df_pc = "decoder"
  /\ \/ /\ df_pc' = "context"
        /\ UNCHANGED img_res
     \/ /\ img_res' = [img_res EXCEPT !.fc_closed = @ + 1]
        /\ df_pc' = "null_returned"
  /\ UNCHANGED <<png_packets, png_pos, frame_finished, received>>

\* STEP 6: create_codec_context.  avcodec_alloc_context3 fails (nothing
\* made), or a later step fails and create_codec_context frees what it
\* allocated; either way the caller closes the input and returns nullptr.
create_codec_context ==
  /\ UNCHANGED <<mainVars, exVars, nmVars, cbVars, cfVars, twVars>>
  /\ df_pc = "context"
  /\ \/ /\ img_res' = [img_res EXCEPT !.cc_made = 1]
        /\ df_pc' = "frame"
     \/ /\ \E allocated \in 0..1 :
             img_res' = [img_res EXCEPT !.cc_made = allocated,
                                        !.cc_freed = allocated,
                                        !.fc_closed = @ + 1]
        /\ df_pc' = "null_returned"
  /\ UNCHANGED <<png_packets, png_pos, frame_finished, received>>

\* STEP 7: create_frame; on failure the codec context is freed, the input
\* closed and nullptr returned
create_frame ==
  /\ UNCHANGED <<mainVars, exVars, nmVars, cbVars, cfVars, twVars>>
  /\ df_pc = "frame"
  /\ \/ /\ img_res' = [img_res EXCEPT !.fr_made = 1]
        /\ df_pc' = "read"
     \/ /\ img_res' = [img_res EXCEPT !.cc_freed = @ + 1, !.fc_closed = @ + 1]
        /\ df_pc' = "null_returned"
  /\ UNCHANGED <<png_packets, png_pos, frame_finished, received>>

\* STEP 8 after decode_frames returned, and STEP 9: the codec context is
\* freed and the input closed; the frame is freed when decode_frames
\* failed and returned to the caller otherwise
ConvertPngReturn ==
  /\ UNCHANGED <<mainVars, exVars, nmVars, cbVars, cfVars, twVars>>
  /\ df_pc \in {"true", "false"}
  /\ img_res' = [img_res EXCEPT
                   !.cc_freed = @ + 1,
                   !.fc_closed = @ + 1,
                   !.fr_freed = IF df_pc = "false" THEN @ + 1 ELSE @]
  /\ df_pc' = IF df_pc = "true" THEN "frame_returned" ELSE "null_returned"
  /\ UNCHANGED <<png_packets, png_pos, frame_finished, received>>

\* ------------------------------------------------- the standalone program
\* What the constructor of src/main.cpp comes to, the search for the video
\* stream left to find_video_stream:
\*   ok          every call succeeds
\*   open_fail   avformat_open_input fails
\*   info_fail   avformat_find_stream_info fails: the input is closed
\*   alloc_fail  avcodec_alloc_context3 fails
\*   params_fail avcodec_parameters_to_context fails: the context is freed
\*   codec_fail  avcodec_open2 fails (also when avcodec_find_decoder found
\*               no decoder): the context is freed
\* Every failure throws std::runtime_error.
MainConstructOutcomes == {"ok", "open_fail", "info_fail", "alloc_fail",
                          "params_fail", "codec_fail"}

\* what() of the exception the constructor throws for outcome o on a file
\* with streams s ("": it returns)
ConstructWhat(o, s) ==
  CASE o = "open_fail" -> "[ERROR] Failed to open video file."
    [] o = "info_fail" -> "[ERROR] Failed to retrieve stream information."
    [] find_video_stream(s) = -1 -> "[ERROR] Failed to find video stream."
    [] o = "alloc_fail" -> "[ERROR] Failed to allocated codec context."
    [] o = "params_fail" -> "[ERROR] Failed to find video decoder."
    [] o = "codec_fail" -> "[ERROR] Failed to open video codec."
    [] OTHER -> ""

\* What one call of save_frame_as_image of src/main.cpp comes to, in the
\* order of its steps:
\*   no_codec    avcodec_find_encoder fails
\*   ctx_fail    avcodec_alloc_context3 fails
\*   codec_fail  avcodec_open2 fails
\*   frame_fail  av_frame_alloc fails
\*   buffer_fail av_frame_get_buffer fails
\*   sws_fail    sws_getContext fails
\*   file_fail   std::ofstream cannot open the path
\*   pkt_fail    av_packet_alloc fails (the file is already created)
\*   encode_fail avcodec_send_frame or avcodec_receive_packet fails: the write
\*               is left out, the function returns
\*   ok          the PNG packet is written
MainSaveThrows == {"no_codec", "ctx_fail", "codec_fail", "frame_fail",
                   "buffer_fail", "sws_fail", "file_fail", "pkt_fail"}
MainSaveOutcomes == MainSaveThrows \cup {"encode_fail", "ok"}

\* what() of the exception save_frame_as_image throws ("": it returns)
MainSaveWhat(o) ==
  CASE o = "no_codec" -> "[ERROR] Failed to find PNG codec."
    [] o = "ctx_fail" -> "[ERROR] Failed to allocate PNG codec context."
    [] o = "codec_fail" -> "[ERROR] Failed to open PNG codec."
    [] o = "frame_fail" -> "[ERROR] Failed to allocate PNG frame."
    [] o = "buffer_fail" -> "[ERROR] Failed to allocate PNG frame buffer."
    [] o = "sws_fail" -> "[ERROR] Failed to create frame conversion context."
    [] o = "file_fail" -> "[ERROR] Failed to open output file."
    [] o = "pkt_fail" -> "[ERROR] Failed to allocate PNG packet."
    [] OTHER -> ""

\* output_dir + "/frame_" + std::to_string(frame_count) + ".png"
MainFramePath(output_dir, n) == output_dir \o Str_frame \o Digits(n) \o Str_png

\* the directory after save_frame_as_image(frame, p) ended with outcome o:
\* std::ofstream creates the file before the packet is allocated
MainSaveFile(fs, p, o) ==
  CASE o = "ok" -> WriteFile(fs, p, "png")
    [] o \in {"pkt_fail", "encode_fail"} -> WriteFile(fs, p, "empty")
    [] OTHER -> fs

ProgramIdle ==
  /\ argc = 1 /\ main_pc = "off" /\ in_streams = <<>> /\ in_packets = <<>>
  /\ in_pos = 1 /\ m_dec_delay = 0 /\ m_dec_buf = 0 /\ m_frame_count = 0
  /\ m_files = {} /\ m_opened = 0 /\ m_what = "" /\ m_failed = <<>>
  /\ exit_code = -1

\* the program is started with argc - 1 arguments; argv[1], when it names a
\* file avformat_open_input can read, is one of the files of ExtractorInit
ProgramInit ==
  /\ argc \in 1..MaxArgc
  /\ main_pc = "main"
  /\ in_streams \in StreamLayouts
  /\ in_packets \in SeqsUpTo({k - 1 : k \in DOMAIN in_streams}, MaxPackets)
  /\ in_pos = 1
  /\ m_dec_delay \in 0..MaxDelay
  /\ m_dec_buf = 0
  /\ m_frame_count = 0
  /\ m_files = {}
  /\ m_opened = 0
  /\ m_what = ""
  /\ m_failed = <<>>
  /\ exit_code = -1

\* main with argc < 3: the usage line is printed, return 1
MainUsage ==
  /\ UNCHANGED <<exVars, nmVars, cbVars, cfVars, twVars, dfVars>>
  /\ main_pc = "main"
  /\ argc < 3
  /\ exit_code' = 1
  /\ main_pc' = "exited"
  /\ UNCHANGED <<argc, in_streams, in_packets, in_pos, m_dec_delay, m_dec_buf,
                 m_frame_count, m_files, m_opened, m_what, m_failed>>

\* FrameExtractor extractor(argv[1]): the constructor returns, or it throws
\* and main catches the exception, prints what() and returns 1
MainConstruct ==
  /\ UNCHANGED <<exVars, nmVars, cbVars, cfVars, twVars, dfVars>>
  /\ main_pc = "main"
  /\ argc >= 3
  /\ m_opened' = m_opened + 1
  /\ \E o \in MainConstructOutcomes :
       /\ m_what' = ConstructWhat(o, in_streams)
       /\ IF ConstructWhat(o, in_streams) = ""
          THEN main_pc' = "read" /\ UNCHANGED exit_code
          ELSE main_pc' = "exited" /\ exit_code' = 1
  /\ UNCHANGED <<argc, in_streams, in_packets, in_pos, m_dec_delay, m_dec_buf,
                 m_frame_count, m_files, m_failed>>

\* while (av_read_frame(format_context, &packet) >= 0) at the end of the
\* file: av_frame_free, extract_frames returns, main prints the count and
\* returns 0
MainReadEnd ==
  /\ UNCHANGED <<exVars, nmVars, cbVars, cfVars, twVars, dfVars>>
  /\ main_pc = "read"
  /\ in_pos > Len(in_packets)
  /\ exit_code' = 0
  /\ main_pc' = "exited"
  /\ UNCHANGED <<argc, in_streams, in_packets, in_pos, m_dec_delay, m_dec_buf,
                 m_frame_count, m_files, m_opened, m_what, m_failed>>

\* a packet of another stream: av_packet_unref, next packet
MainReadOther ==
  /\ UNCHANGED <<exVars, nmVars, cbVars, cfVars, twVars, dfVars>>
  /\ main_pc = "read"
  /\ in_pos <= Len(in_packets)
  /\ in_packets[in_pos] # find_video_stream(in_streams)
  /\ in_pos' = in_pos + 1
  /\ UNCHANGED <<argc, main_pc, in_streams, in_packets, m_dec_delay, m_dec_buf,
                 m_frame_count, m_files, m_opened, m_what, m_failed, exit_code>>

\* a packet of the video stream: avcodec_send_packet (result not looked at)
MainReadVideo ==
  /\ UNCHANGED <<exVars, nmVars, cbVars, cfVars, twVars, dfVars>>
  /\ main_pc = "read"
  /\ in_pos <= Len(in_packets)
  /\ in_packets[in_pos] = find_video_stream(in_streams)
  /\ in_pos' = in_pos + 1
  /\ \E accepted \in BOOLEAN :
       m_dec_buf' = IF accepted THEN m_dec_buf + 1 ELSE m_dec_buf
  /\ main_pc' = "receive"
  /\ UNCHANGED <<argc, in_streams, in_packets, m_dec_delay, m_frame_count,
                 m_files, m_opened, m_what, m_failed, exit_code>>

\* avcodec_receive_frame(...) != 0: the for loop ends, av_packet_unref
MainReceiveNone ==
  /\ UNCHANGED <<exVars, nmVars, cbVars, cfVars, twVars, dfVars>>
  /\ main_pc = "receive"
  /\ m_dec_buf <= m_dec_delay
  /\ main_pc' = "read"
  /\ UNCHANGED <<argc, in_streams, in_packets, in_pos, m_dec_delay, m_dec_buf,
                 m_frame_count, m_files, m_opened, m_what, m_failed, exit_code>>

\* one round of the for loop: a frame is received and save_frame_as_image
\* runs.  When it returns, "[INFO] Processed" is printed and frame_count++;
\* when it throws, the exception leaves extract_frames and main returns 1.
MainReceiveFrame ==
  /\ UNCHANGED <<exVars, nmVars, cbVars, cfVars, twVars, dfVars>>
  /\ main_pc = "receive"
  /\ m_dec_buf > m_dec_delay
  /\ m_dec_buf' = m_dec_buf - 1
  /\ \E o \in MainSaveOutcomes :
       /\ m_files' = MainSaveFile(m_files,
                                  MainFramePath(OutputDir, m_frame_count), o)
       /\ m_opened' = IF o \in {"file_fail", "pkt_fail", "encode_fail", "ok"}
                      THEN m_opened + 1 ELSE m_opened
       /\ m_failed' = IF o = "ok" THEN m_failed
                      ELSE Append(m_failed, [frame |-> m_frame_count, step |-> o])
       /\ m_what' = MainSaveWhat(o)
       /\ IF MainSaveWhat(o) = ""
          THEN /\ m_frame_count' = m_frame_count + 1
               /\ main_pc' = "receive"
               /\ UNCHANGED exit_code
          ELSE /\ UNCHANGED m_frame_count
               /\ main_pc' = "exited"
               /\ exit_code' = 1
  /\ UNCHANGED <<argc, in_streams, in_packets, in_pos, m_dec_delay>>

\* ------------------------------------------------------------ specifications
\* one FrameExtractor: get_leading_zeros and extract_frames on one video
Init ==
  /\ ExtractorInit /\ NamingIdle /\ CombinerIdle /\ SharedIdle /\ DecodeIdle
  /\ ProgramIdle

Next ==
  \/ Construct
  \/ GetLeadingZeros
  \/ ExtractFrames
  \/ ReadNull
  \/ ReadEnd
  \/ ReadOther
  \/ ReadVideo
  \/ ReceiveNone
  \/ ReceiveFrame
  \/ DestroyExtractor

Spec == Init /\ [][Next]_vars

\* the steps of the loop of extract_frames.  The program is sequential:
\* unless the process has stopped, the statement it is at runs.
ExtractStep ==
  \/ ReadNull
  \/ ReadEnd
  \/ ReadOther
  \/ ReadVideo
  \/ ReceiveNone
  \/ ReceiveFrame

\* one FrameExtractor whose extract_frames, once entered, keeps running
SpecTermination == Init /\ [][Next]_vars /\ WF_vars(ExtractStep)

\* one FrameCombiner: combine_frames_to_video on one directory
InitCombine ==
  /\ ExtractorIdle /\ NamingIdle /\ CombinerInit /\ SharedIdle /\ DecodeIdle
  /\ ProgramIdle

NextCombine ==
  \/ setup_video_codec
  \/ open_output_file
  \/ get_png_files_in_dir
  \/ ConvertDecode
  \/ EncodeSend
  \/ DrainPacket
  \/ DrainEnd
  \/ ConvertEnd
  \/ process_frames
  \/ write_trailer

SpecCombine == InitCombine /\ [][NextCombine]_vars

\* one FrameCombiner from its construction to its destruction: up to MaxOps
\* calls of combine_frames_to_video and cleanup_resources in any order
InitLifetime ==
  /\ ExtractorIdle /\ NamingIdle /\ CombinerConstructed /\ SharedIdle /\ DecodeIdle
  /\ ProgramIdle

NextLifetime ==
  \/ combine_frames_to_video
  \/ cleanup_resources
  \/ DestroyCombiner
  \/ setup_video_codec
  \/ open_output_file
  \/ get_png_files_in_dir
  \/ ConvertDecode
  \/ EncodeSend
  \/ DrainPacket
  \/ DrainEnd
  \/ ConvertEnd
  \/ process_frames
  \/ write_trailer

SpecLifetime == InitLifetime /\ [][NextLifetime]_vars

\* the width computed for every packet count
InitWidth ==
  /\ ExtractorIdle /\ CombinerIdle /\ SharedIdle /\ DecodeIdle
  /\ ProgramIdle
  /\ total_frames \in 0..MaxTotalFrames
  /\ nm_width = 0 /\ nm_count = 0 /\ paths = <<>>

NextWidth == ComputeWidth

SpecWidth == InitWidth /\ [][NextWidth]_vars

\* the paths of the frames of one video, named with the computed width
InitNames ==
  /\ ExtractorIdle /\ CombinerIdle /\ SharedIdle /\ DecodeIdle
  /\ ProgramIdle
  /\ total_frames \in 0..MaxNamedFrames
  /\ nm_width = 0 /\ nm_count = 0 /\ paths = <<>>

NextNames ==
  \/ ComputeWidth
  \/ NameFrame

SpecNames == InitNames /\ [][NextNames]_vars

\* find_video_stream on every stream layout: the object is at STEP 3 of the
\* constructor, the input is open and video_stream_index is still -1
InitStreams ==
  /\ NamingIdle /\ CombinerIdle /\ SharedIdle /\ DecodeIdle
  /\ ProgramIdle
  /\ streams \in SeqsUpTo(MediaTypes, MaxStreams)
  /\ container = <<>> /\ pos = 1 /\ dec_delay = 0 /\ dec_buf = 0
  /\ ex_pc = "find" /\ format_context = "open" /\ codec_context = "null"
  /\ video_stream_index = -1
  /\ width = 0 /\ frame_count = 0 /\ member_frame_count = 0 /\ lz_width = 0
  /\ files = {} /\ ex_log = <<>> /\ saved = <<>> /\ skipped = <<>>
  /\ save_res = SaveResources("none") /\ runs = 0
  /\ ex_res = [NoResources EXCEPT !.fc_made = 1]

NextStreams == FindVideoStream

SpecStreams == InitStreams /\ [][NextStreams]_vars

\* decode_frames on every image file of up to MaxPngPackets packets
InitDecode ==
  /\ ExtractorIdle /\ NamingIdle /\ CombinerIdle /\ SharedIdle /\ DecodeInit
  /\ ProgramIdle

NextDecode ==
  \/ DecodeOther
  \/ DecodeSendFailed
  \/ DecodeNoFrame
  \/ DecodeFrame
  \/ DecodeEnd

SpecDecode == InitDecode /\ [][NextDecode]_vars

\* convert_png_to_av_frame on every image file of up to MaxPngPackets packets
InitConvertPng ==
  /\ ExtractorIdle /\ NamingIdle /\ CombinerIdle /\ SharedIdle /\ ConvertPngInit
  /\ ProgramIdle

NextConvertPng ==
  \/ open_input_file
  \/ retrieve_stream_info
  \/ find_best_video_stream
  \/ find_decoder
  \/ create_codec_context
  \/ create_frame
  \/ DecodeOther
  \/ DecodeSendFailed
  \/ DecodeNoFrame
  \/ DecodeFrame
  \/ DecodeEnd
  \/ ConvertPngReturn

SpecConvertPng == InitConvertPng /\ [][NextConvertPng]_vars

\* the standalone program run once on a command line
InitMain ==
  /\ ExtractorIdle /\ NamingIdle /\ CombinerIdle /\ SharedIdle /\ DecodeIdle
  /\ ProgramInit

NextMain ==
  \/ MainUsage
  \/ MainConstruct
  \/ MainReadEnd
  \/ MainReadOther
  \/ MainReadVideo
  \/ MainReceiveNone
  \/ MainReceiveFrame

SpecMain == InitMain /\ [][NextMain]_vars

\* two videos extracted into the same output directory by two objects
InitShared ==
  /\ ExtractorIdle /\ NamingIdle /\ CombinerIdle /\ SharedIdle /\ DecodeIdle
  /\ ProgramIdle

NextShared ==
  \/ \E o \in 1..2 : ConstructAt(o)
  \/ \E o \in 1..2 : WriteFrame(o)
  \/ \E o \in 1..2 : Destroy(o)

SpecShared == InitShared /\ [][NextShared]_vars

\* ------------------------------------------------------------------ claims
Range(q) == {q[k] : k \in DOMAIN q}

\* frames the decoder yields for the run, the ones it still buffers when the
\* container is exhausted included: those received plus those still inside
DecoderYield == Len(saved) + Len(skipped) + dec_buf

\* C1: when extract_frames returns, the number of image files it wrote is
\* the number of frames the decoder yields, the frames it still buffers at
\* the end of the container included, minus the frames whose save failed.
C1_FilesEqualDecoderYield ==
  ex_pc = "done" => Len(saved) = DecoderYield - Len(skipped)

RECURSIVE Pow10(_)
Pow10(k) == IF k = 0 THEN 1 ELSE 10 * Pow10(k - 1)

\* ceil(log10(m)) for m >= 1: the least w with 10^w >= m
CeilLog10(m) == CHOOSE w \in 0..12 : Pow10(w) >= m /\ \A v \in 0..(w - 1) : Pow10(v) < m

\* C2: for every packet count N >= 0, get_leading_zeros returns
\* max(1, ceil(log10(N + 1))); 42 gives 2, 150 gives 3, 0 gives 1.
C2_WidthIsCeilLog10 ==
  nm_width # 0 =>
    LET c == CeilLog10(total_frames + 1)
    IN nm_width = IF c < 1 THEN 1 ELSE c

\* C2 witness: the width of a video of 150 packets was computed and is 3
C2_Witness == total_frames = 150 /\ nm_width = 3

\* C3: with the width get_leading_zeros returned for the video, the path of
\* frame a is lexically smaller than the path of every later frame b.
C3_PathsSortInCaptureOrder ==
  \A a, b \in DOMAIN paths : a < b => LexLess(paths[a], paths[b])

\* C3 witness: a video of more than ten frames: frame 10 was named with
\* width 2 after the one-digit indices
C3_Witness == nm_width = 2 /\ Len(paths) >= 11

\* C4: a frame whose save failed does not advance the frame counter: the
\* counter is the number of frames saved so far, so the next frame that is
\* saved reuses the index.
C4_CounterCountsSavedFrames == frame_count = Len(saved)

\* C5: the presentation timestamps of the frames the encoder was given are
\* 0, 1, 2, ... with no gap, whatever was skipped before them.
C5_PtsWithoutGaps == \A k \in DOMAIN sent : sent[k].pts = k - 1

\* C6: in every run the first emitted unit has index 0 and each later one
\* the previous index plus 1, for the Extractor's files and for the
\* Combiner's frames.
C6_IndicesFromZeroByOne ==
  /\ \A k \in DOMAIN saved : saved[k] = k - 1
  /\ \A k \in DOMAIN sent : sent[k].pts + 1 = k

\* C7: when the trailer is written the encoder has been flushed: it holds
\* no frame whose packet was not written.
C7_EncoderDrainedBeforeTrailer == trailer_written => enc_queue = <<>>

\* C8: for a directory of k valid images (none fails to decode, rescale,
\* encode or write) the finished output holds exactly k packets and the
\* trailer, whatever the encoder's delay.
C8_AllValidFramesMuxed ==
  (/\ cb_pc = "done"
   /\ codec_context_ = "open" /\ header_written
   /\ unreadable = {} /\ enc_failed = <<>>)
  => /\ Len(muxed) = Cardinality(dir \ OtherEntries)
     /\ trailer_written

\* C9: when files cannot be decoded or rescaled (and nothing else fails) the
\* run reports and skips exactly those files, visits every file, sends the
\* other files' frames in sorted order and ends with the trailer written.
C9_UnreadableFileOnlySkipped ==
  (/\ cb_pc \in {"done", "crashed"}
   /\ codec_context_ = "open" /\ header_written
   /\ unreadable # {} /\ enc_failed = <<>>)
  => /\ cb_pc = "done"
     /\ trailer_written
     /\ visited = [k \in 1..Len(png_files) |-> k]
     /\ unreadable \subseteq cb_log
     /\ {sent[k].pos : k \in DOMAIN sent} = (1..Len(png_files)) \ unreadable
     /\ \A a, b \in DOMAIN sent : a < b => sent[a].pos < sent[b].pos

\* C10: after a failure to send a frame to the encoder or to write a packet
\* no later file is decoded or encoded.
C10_EncodeFailureIsFatal ==
  enc_failed # <<>> => \A p \in Range(visited) : p <= enc_failed[1]

\* setup_video_codec and open_output_file have run and one of them failed:
\* there is no opened encoder, or no container with its header written
SetupOrOpenFailed ==
  /\ cb_pc \notin {"off", "setup", "open_output"}
  /\ (codec_context_ # "open" \/ ~header_written)

\* C11: when setup_video_codec or open_output_file failed the run is
\* aborted: the directory is not scanned, no file is decoded, no frame is
\* sent to the encoder, no packet is muxed and no trailer is written.
C11_AbortAfterSetupFailure ==
  SetupOrOpenFailed =>
    /\ cb_pc \notin {"convert", "encode", "drain", "process", "trailer", "done"}
    /\ visited = <<>> /\ sent = <<>> /\ muxed = <<>>
    /\ ~trailer_written

\* the file the extractor was given has no video stream
NoVideoStream == ex_pc # "off" /\ find_video_stream(streams) = -1

\* C12: on a container with no video stream the constructor fails at once:
\* no object is handed to the caller, the decoder is not initialised from
\* the stream at index -1, the container is not read and no file is written.
C12_NoVideoStreamFailsAtOnce ==
  NoVideoStream =>
    /\ ex_pc = "new"
    /\ codec_context = "null"
    /\ pos = 1 /\ lz_width = 0 /\ runs = 0
    /\ files = {}

\* C13: an object the caller can call get_leading_zeros or extract_frames
\* on is fully constructed: a constructor step that fails throws, so no
\* object with a null format_context or a null codec_context is left.
C13_NoPartlyConstructedObject ==
  ex_pc \in {"opened", "read", "receive", "done"} =>
    format_context = "open" /\ codec_context = "open"

\* the frame f has the encoder's resolution and the encoder's pixel format
IsTargetFrame(f) == f.size = TargetSize /\ f.fmt = TargetFmt

\* C14: every frame handed to avcodec_send_frame, and every frame the
\* encoder accepted, has the target resolution 1920x1080 and the target
\* pixel format YUV420P, whatever the decoded image was.
C14_SentFramesHaveTargetFormat ==
  /\ cb_pc = "encode" => IsTargetFrame(frame)
  /\ \A k \in DOMAIN sent : IsTargetFrame(sent[k])

\* C15: rescale_frame_if_necessary is idempotent.  A decoded frame that
\* already has the target resolution and pixel format comes back as the
\* same object, not released and with no copy allocated; and applied to the
\* frame it returned, whatever a rescale would come to, it returns that
\* frame and leaves every frame as it is.
C15_RescaleIdempotent ==
  cb_pc = "encode" =>
    /\ IsTargetFrame(decoded) =>
          /\ frame = decoded
          /\ heap.live = {decoded.id}
    /\ \A r \in RescaleOutcomes :
          LET again == rescale_frame_if_necessary(frame, heap, r)
          IN again.ok /\ again.frame = frame /\ again.heap = heap

\* C15 witness: a decoded frame already in the target format went through
\* rescale_frame_if_necessary and is the frame about to be encoded
C15_Witness ==
  /\ cb_pc = "encode"
  /\ IsTargetFrame(decoded)
  /\ frame.id = decoded.id

\* C16: in convert_pngs_to_frames no frame is released twice, and when the
\* loop is between two files (or over) every frame that was obtained from
\* convert_png_to_av_frame or from rescaling has been released exactly once.
C16_FramesReleasedExactlyOnce ==
  /\ heap.again = {}
  /\ cb_pc \in {"convert", "process", "trailer", "done"} => heap.live = {}

\* C20 as stated: the presentation timestamps of the packets written to the
\* container never decrease in write order.
C20_PtsNonDecreasing ==
  \A a, b \in DOMAIN muxed : a < b => muxed[a].pts <= muxed[b].pts

\* C20, amended: the decoding timestamps of the packets written to the
\* container are strictly increasing in write order, for every sequence of
\* input files and whatever order the encoder codes the frames in; with
\* max_b_frames = 1 the presentation timestamps need not be (a B-frame's
\* packet follows the packet of the P-frame presented after it).
C20_DtsIncreasing ==
  \A a, b \in DOMAIN muxed : a < b => muxed[a].dts < muxed[b].dts

\* C20 witness: a B-frame's packet was written after the packet of a frame
\* presented later
C20_Witness ==
  \E a, b \in DOMAIN muxed : a < b /\ muxed[a].pts > muxed[b].pts

\* C17: in every call of save_frame_as_image the PNG codec context and the
\* PNG frame are each released exactly once when they were allocated (and
\* not at all otherwise), and no null or released pointer is dereferenced,
\* whichever step fails.
C17_SaveReleasesEachObjectOnce ==
  /\ save_res.fault = "none"
  /\ save_res.ctx = (IF save_res.made_ctx THEN 1 ELSE 0)
  /\ save_res.png_frame = (IF save_res.made_frame THEN 1 ELSE 0)

\* C18: two FrameExtractor runs on two videos that write into the same
\* output directory never write the same path, whether the two objects are
\* alive at the same time or one is constructed after the other was
\* destroyed.
C18_RunsWriteDisjointPaths ==
  \A f, g \in written : f.path = g.path => f.by = g.by

\* a string of n characters '0'
Zeros(n) == [x \in 1..n |-> 48]

\* the characters of p from position a to position b are decimal digits,
\* at least one
DigitsAt(p, a, b) == a <= b /\ \A x \in a..b : p[x] \in 48..57

\* the index n written in decimal, with zeros in front up to w characters
PaddedIndex(w, n) ==
  LET d == Digits(n)
  IN IF Len(d) >= w THEN d ELSE Zeros(w - Len(d)) \o d

C21_MemberCountsExtractedFrames ==
  (ex_pc = "done" /\ runs >= 1)
    => member_frame_count \in {Len(saved), Len(saved) + Len(skipped)}

\* C26: when the PNG encoder produces no packet for a frame,
\* save_frame_as_image fails with EncodeFailed: the failure is reported on
\* std::cerr, no "[INFO] Processed" line is printed for the frame, and no
\* file is left at the frame's path.
C26_EncodeFailureReportedNoFile ==
  (ex_pc = "receive" /\ save_res.outcome = "encode_fail" /\ skipped # <<>>)
    => LET n == skipped[Len(skipped)]
       IN /\ \E k \in DOMAIN ex_log :
               ex_log[k] = [stream |-> "cerr", frame |-> n]
          /\ \A k \in DOMAIN ex_log :
               ex_log[k] # [stream |-> "cout", frame |-> n]
          /\ \A f \in files : f.path # FramePath(OutputDir, width, n, ThisPtr)

\* C25: get_leading_zeros does not interleave with the decode pass: when it
\* has returned on an opened object, no packet was sent to the decoder, no
\* file was written, and the stream is back at its beginning, so that the
\* extract_frames that follows reads the first packet of the video.
C25_PrePassRewindsStream ==
  (ex_pc = "opened" /\ format_context = "open" /\ lz_width # 0 /\ runs = 0)
    => /\ dec_buf = 0
       /\ files = {}
       /\ pos = 1

\* C30: in extract_frames a packet whose stream index differs from
\* video_stream_index is only dropped: the step that reads it sends nothing
\* to the decoder, receives no frame, writes no file and no log line, and
\* leaves the decoder's buffered frames and the frame counter as they were.
C30_OtherStreamPacketDiscarded ==
  [][(/\ ex_pc = "read"
      /\ format_context = "open"
      /\ pos <= Len(container)
      /\ container[pos] # video_stream_index)
       => /\ pos' = pos + 1
          /\ ex_pc' = "read"
          /\ UNCHANGED <<dec_buf, codec_context, frame_count, files, saved,
                         skipped, ex_log, save_res>>]_vars

\* a video packet was decoded and saved, then a packet of another stream
\* was read and dropped
C30_Witness ==
  /\ ex_pc = "read" /\ lz_width = 0 /\ pos = 3
  /\ container[1] = video_stream_index
  /\ container[2] # video_stream_index
  /\ frame_count = 1 /\ saved = <<0>> /\ dec_buf = 0

\* the 0-based indices of the video streams of a layout
VideoStreams(s) == {k \in 0..(Len(s) - 1) : s[k + 1] = "video"}

\* C29: find_video_stream selects the lowest-index stream whose media type
\* is video, and leaves video_stream_index at -1 exactly when the container
\* has no video stream.
C29_FirstVideoStreamSelected ==
  ex_pc = "found"
    => /\ video_stream_index = -1 <=> VideoStreams(streams) = {}
       /\ VideoStreams(streams) # {}
            => /\ video_stream_index \in VideoStreams(streams)
               /\ \A k \in VideoStreams(streams) : video_stream_index <= k

\* two video streams behind an audio stream: the first of them is selected
C29_Witness ==
  /\ ex_pc = "found"
  /\ streams = <<"audio", "video", "subtitle", "video">>
  /\ video_stream_index = 1

\* C22: in every run of combine_frames_to_video the container header is
\* written before any packet is muxed, every packet is muxed before the
\* trailer, and the trailer is written at most once and only for a container
\* whose header was successfully written.
C22_HeaderPacketsTrailerInOrder ==
  /\ muxed # <<>> => header_written
  /\ trailer_written => cb_pc = "done"
  /\ cb_pc = "trailer" => ~trailer_written
  /\ trailer_written => header_written

\* a regular file directly inside png_dir whose name ends in ".png" after
\* at least one other character
PngOfDir(e) ==
  /\ e.parent = PngDir
  /\ e.kind = "file"
  /\ Len(e.name) > Len(Str_png)
  /\ SubSeq(e.name, Len(e.name) - Len(Str_png) + 1, Len(e.name)) = Str_png

\* C23: get_png_files_in_dir collects exactly the regular files directly
\* inside png_dir whose extension is ".png", leaves them in ascending
\* lexical order of path, and convert_pngs_to_frames decodes and encodes
\* them in exactly that order.  The list is looked at when
\* get_png_files_in_dir has just returned (nothing after it assigns
\* png_files); the positions visited and sent are looked at in every state.
C23_PngFilesExactSortedVisitedInOrder ==
  /\ (cb_pc \in {"convert", "process", "trailer", "done"} /\ visited = <<>>)
       => /\ {png_files[k] : k \in DOMAIN png_files}
               = {e.parent \o <<47>> \o e.name : e \in {x \in dir : PngOfDir(x)}}
          /\ \A a, b \in DOMAIN png_files :
               a < b => LexLess(png_files[a], png_files[b])
  /\ visited = [k \in 1..Len(visited) |-> k]
  /\ Len(visited) <= Len(png_files)
  /\ cb_pc \in {"process", "trailer", "done"} => Len(visited) = Len(png_files)
  /\ \A a, b \in DOMAIN sent : a < b => sent[a].pos < sent[b].pos

\* three images created as f7.png, f3.png, f10.png among the other entries:
\* listed as in/f10.png, in/f3.png, in/f7.png and sent in that order
C23_Witness ==
  /\ cb_pc = "done"
  /\ png_files = <<PngDir \o <<47, 102, 49, 48>> \o Str_png,
                   PngDir \o <<47, 102, 51>> \o Str_png,
                   PngDir \o <<47, 102, 55>> \o Str_png>>
  /\ OtherEntries \subseteq dir
  /\ visited = <<1, 2, 3>>
  /\ Len(sent) = 3 /\ sent[1].pos = 1 /\ sent[3].pos = 3

\* the packets the encoder handed out that were written, in that order
WrittenPackets == SelectSeq(emitted, LAMBDA p : p.written)

\* v is ts / CodecTimeBaseDen seconds counted in units of 1 / stream_tb,
\* rounded to the nearest unit
RescaledOnce(v, ts) ==
  LET d == CodecTimeBaseDen * v - ts * stream_tb
  IN 2 * d < CodecTimeBaseDen /\ -2 * d < CodecTimeBaseDen

\* C24: after each frame is sent, encode_and_write_frame drains every packet
\* the encoder has available, rescales each packet's timestamps from the
\* encoder time base to the stream time base exactly once before it is
\* muxed, and muxes the packets in the order the encoder produced them.
C24_PacketsDrainedRescaledOnceInOrder ==
  /\ cb_pc \in {"convert", "process", "trailer", "done"}
       => Len(enc_queue) <= enc_delay
  /\ Len(muxed) = Len(WrittenPackets)
  /\ \A k \in DOMAIN muxed :
       /\ RescaledOnce(muxed[k].pts, WrittenPackets[k].pts)
       /\ RescaledOnce(muxed[k].dts, WrittenPackets[k].dts)

\* three frames, no encoder delay, time base 1/1000: the second packet fails
\* to be written, the first and the third are muxed with pts 0 and 67
C24_Witness ==
  /\ cb_pc = "convert"
  /\ stream_tb = 1000
  /\ Len(emitted) = 3 /\ ~emitted[2].written
  /\ Len(muxed) = 2
  /\ muxed[1].pts = 0 /\ muxed[2].pts = 67

\* C27 as stated: decode_frames returns a frame if and only if the decoder
\* yielded one before the image file was exhausted; it stops at the first
\* frame, and otherwise returns failure after reading to the end of the file.
C27_FrameIffYieldedElseReadToEnd ==
  /\ received <= 1
  /\ df_pc = "true" <=> received = 1
  /\ df_pc = "true" => png_pos <= Len(png_packets)
  /\ df_pc = "false" => png_pos > Len(png_packets)

\* C27 amended: decode_frames returns a frame if and only if the decoder
\* yielded one before the image file was exhausted; it stops at the first
\* frame, and otherwise returns failure, either at the first video packet
\* the decoder rejects or after reading to the end of the file.
C27_FrameIffYieldedElseRejectedOrEnd ==
  /\ received <= 1
  /\ df_pc = "true" <=> received = 1
  /\ df_pc = "true" => png_pos <= Len(png_packets)
  /\ df_pc = "false"
       => \/ png_pos > Len(png_packets)
          \/ png_packets[png_pos] = "damaged"

\* the decoder rejects the second packet: failure is returned with a video
\* packet still unread
C27_Witness ==
  /\ df_pc = "false"
  /\ png_packets = <<"other", "damaged", "video">>
  /\ png_pos = 2
  /\ received = 0

\* C28 as stated: when rescale_frame_if_necessary fails it does not release
\* the original frame: the original is still live when the failure is
\* returned, and the caller frees it, exactly once.
C28_CallerFreesOriginalAfterRescaleFailure ==
  rescale_failed.id # 0
    => /\ rescale_failed.id \in rescale_failed.live
       /\ rescale_failed.id \notin heap.live
       /\ rescale_failed.id \notin heap.again

\* C28 amended: when rescale_frame_if_necessary fails it releases the
\* original frame itself before it returns nullptr; the caller frees
\* nothing, and the original has been released exactly once.
C28_RescaleFreesOriginalOnFailure ==
  rescale_failed.id # 0
    => /\ rescale_failed.id \notin rescale_failed.live
       /\ rescale_failed.id \notin heap.live
       /\ rescale_failed.id \notin heap.again

\* the rescale of the second file's frame failed and the loop went on
C28_Witness ==
  /\ cb_pc = "convert"
  /\ file_idx = 3
  /\ rescale_failed.id = DecodedId(2)
  /\ 2 \in unreadable

\* C34: over the lifetime of a FrameExtractor the codec context and the
\* format context are never released more often than they were made, and
\* once the destructor has run each one that was made has been released
\* exactly once, whichever way the constructor ended
C34_ExtractorResourcesReleasedOnce ==
  /\ ex_res.cc_freed <= ex_res.cc_made
  /\ ex_res.fc_freed <= ex_res.fc_made
  /\ ex_res.cc_made <= 1 /\ ex_res.fc_made <= 1
  /\ ex_pc = "destroyed" =>
       /\ ex_res.cc_freed = ex_res.cc_made
       /\ ex_res.fc_freed = ex_res.fc_made

\* an object whose avcodec_open2 failed in init_video_codec was destroyed
C34_Witness ==
  /\ ex_pc = "destroyed"
  /\ ex_res.outcome = "codec_fail"
  /\ ex_res.cc_freed = 1
  /\ ex_res.fc_freed = 1

\* C35: in convert_png_to_av_frame the input opened for the image is never
\* closed more often than it was opened and the decoder context never freed
\* more often than it was made, and when the call has returned each one that
\* was made has been released exactly once
C35_ImageInputClosedOnce ==
  /\ img_res.fc_closed <= img_res.fc_made
  /\ img_res.cc_freed <= img_res.cc_made
  /\ df_pc \in {"frame_returned", "null_returned"} =>
       /\ img_res.fc_closed = img_res.fc_made
       /\ img_res.cc_freed = img_res.cc_made

\* C31: the video stream added to the output container has the codec id,
\* the width and height and the pixel format of the encoder context,
\* whatever the output file name is
C31_StreamParametersCopiedFromEncoder ==
  (codecpar # NoParameters /\ enc_cfg # NoSettings) =>
    /\ codecpar.codec_id = enc_cfg.codec_id
    /\ codecpar.size = enc_cfg.size
    /\ codecpar.format = enc_cfg.pix_fmt

\* C32: the encoder settings are the fixed values of setup_video_codec, for
\* every directory of images; only setup_video_codec assigns them and no
\* later step of the run changes them
C32_EncoderSettingsFixed ==
  [][/\ enc_cfg' # NoSettings => enc_cfg' = EncoderSettings
     /\ enc_cfg # NoSettings => enc_cfg' = enc_cfg
     /\ enc_cfg' # enc_cfg => cb_pc = "setup"]_vars

\* a run that sent two frames and skipped an image ended with the settings
\* setup_video_codec assigned
C32_Witness ==
  /\ cb_pc = "done"
  /\ enc_cfg = EncoderSettings
  /\ Len(sent) = 2
  /\ unreadable # {}

C36_EachFileListedOnce ==
  /\ \A a, b \in DOMAIN png_files : png_files[a] = png_files[b] => a = b
  /\ \A a, b \in DOMAIN sent :
       png_files[sent[a].pos] = png_files[sent[b].pos] => a = b

\* C37: no encoder context, output format context or I/O handle of a
\* FrameCombiner is released twice, and once the object is destroyed each
\* one it made has been released exactly once
C37_CombinerResourcesReleasedOnce ==
  \A kind \in {"cc", "fc", "pb"} :
    \A k \in DOMAIN cb_res[kind] :
      /\ cb_res[kind][k] <= 1
      /\ cb_pc = "destroyed" => cb_res[kind][k] = 1

\* C33: every call of extract_frames returns: once the loop is entered the
\* object eventually reaches the end of extract_frames
C33_ExtractFramesReachesDone == (ex_pc = "read") ~> (ex_pc = "done")

\* C38: the standalone program returns 1 when it is given fewer than two
\* arguments, and then opens no file, or when the constructor or
\* extract_frames throws, and 0 otherwise; a step of save_frame_as_image
\* that fails ends the extraction there with exit code 1
C38_ExitCodeReportsFailure ==
  /\ main_pc = "exited" =>
       /\ exit_code = (IF argc < 3 \/ m_what # "" THEN 1 ELSE 0)
       /\ argc < 3 => m_opened = 0
  /\ m_failed # <<>> => main_pc = "exited" /\ exit_code = 1

====
